---- MODULE Spec2Model ----
\* A model of muserv's content graph (package content), its updaters
\* (scanner, notifier), the server's main control loop (package server) and the
\* UPnP state variables the loop maintains (package upnp).
\*
\* Strings are modelled as sequences of byte values, so that Go's string
\* comparison, strings.ToLower and the fmt.Sprintf renderings can be computed
\* the way the code computes them.
EXTENDS Integers, Sequences, FiniteSets, TLC

\* ---------------------------------------------------------------------------
\* Bounds of the model
\* ---------------------------------------------------------------------------
MaxTicks == 2       \* ticker ticks the updater's run loop handles
MaxDiskOps == 1     \* changes made to the music directory while muserv runs
MaxBrowses == 1     \* Browse requests in the sequential graph specification
MaxCycles == 1      \* update cycles in the sequential graph specification
MaxLevels == 4      \* levels of a hierarchy in the configuration file
MaxSorts == 2       \* sort strings of a level in the configuration file
MaxHiers == 101     \* configured hierarchies
MaxPlaylistOps == 3  \* update cycles in the specification of the playlist handlers
MaxLastChange == 2  \* modification times of the files handed to diff

\* ---------------------------------------------------------------------------
\* Generic helpers
\* ---------------------------------------------------------------------------
Nil == -1

Min(a, b) == IF a < b THEN a ELSE b

\* the function f with x mapped to v
Put(f, x, v) == (x :> v) @@ f

RECURSIVE Restrict(_, _)
\* the function f restricted to the set S
Restrict(f, S) ==
    IF S = {} THEN <<>>
    ELSE LET x == CHOOSE y \in S : TRUE IN (x :> f[x]) @@ Restrict(f, S \ {x})

\* the function f without x
Del(f, x) == Restrict(f, DOMAIN f \ {x})

\* the record r1 overridden and extended by the fields of r2
Merge(r1, r2) == r2 @@ r1

\* Go's < on strings: bytewise lexicographic
StrLess(a, b) ==
    \E i \in 1..(Min(Len(a), Len(b)) + 1) :
        /\ \A j \in 1..(i - 1) : a[j] = b[j]
        /\ \/ i > Len(a) /\ i <= Len(b)
           \/ i <= Len(a) /\ i <= Len(b) /\ a[i] < b[i]

\* strings.ToLower on ASCII
ToLower(s) == [i \in 1..Len(s) |-> IF s[i] \in 65..90 THEN s[i] + 32 ELSE s[i]]

RECURSIVE Digits(_)
\* fmt.Sprintf("%d", n) for n >= 0
Digits(n) == IF n < 10 THEN <<48 + n>> ELSE Digits(n \div 10) \o <<48 + (n % 10)>>

\* fmt.Sprintf("%0<w>d", n) for n >= 0
Pad(n, w) ==
    LET d == Digits(n)
    IN  IF Len(d) >= w THEN d ELSE [i \in 1..(w - Len(d)) |-> 48] \o d

RECURSIVE JoinStrs(_)
\* the elements of a []string as fmt's %v prints them, without the brackets
JoinStrs(ss) ==
    IF Len(ss) = 0 THEN <<>>
    ELSE IF Len(ss) = 1 THEN ss[1]
    ELSE ss[1] \o <<32>> \o JoinStrs(Tail(ss))

\* utils.HashUint64 hashes the bytes fmt.Fprintf renders; the FNV hash is taken
\* to be collision free, so a hash value is represented by the rendered bytes
HashUint64(rendered) == <<35>> \o rendered

\* the ids of a set as a sequence in ascending (tb = 1) or descending order;
\* tb stands for the unspecified iteration order of a Go map
RECURSIVE SetToSeq(_, _)
SetToSeq(S, tb) ==
    IF S = {} THEN <<>>
    ELSE LET x == CHOOSE y \in S : \A z \in S : IF tb = 1 THEN y <= z ELSE y >= z
         IN  <<x>> \o SetToSeq(S \ {x}, tb)

\* ---------------------------------------------------------------------------
\* Configuration (config.Cfg) and the music directory
\* ---------------------------------------------------------------------------
sM == <<47, 109>>                    \* "/m"
pA == <<47, 109, 47, 97>>            \* "/m/a"
pB == <<47, 109, 47, 98>>            \* "/m/b"
pC == <<47, 109, 47, 99>>            \* "/m/c"
Paths == {pA, pB, pC}

\* a second music directory, and the files of a larger library
sN == <<47, 110>>                    \* "/n"
pD == <<47, 109, 47, 100>>           \* "/m/d": a file without album tag
pE == <<47, 109, 47, 102, 47, 101>>  \* "/m/f/e": a file in the folder /m/f
pF == <<47, 110, 47, 103>>           \* "/n/g": a file of the second music directory
LibPaths == {pA, pD, pE, pF}

\* a file without title tag, and the files of a library of albums
pG == <<47, 109, 47, 103>>           \* "/m/g"
AlbumPaths == {pA, pE, pF, pG}

MusicDirs == <<sM>>

\* content.hierarchies: Genre -> Album -> Track, and Track
Hiers ==
    << [Name |-> <<71>>,
        Levels |-> << [Type |-> "genre", Sort |-> <<>>],
                      [Type |-> "album", Sort |-> << <<"+", "year">> >>],
                      [Type |-> "track", Sort |-> << <<"+", "trackNo">> >>] >>],
       [Name |-> <<84>>,
        Levels |-> << [Type |-> "track", Sort |-> << <<"-", "title">> >>] >>] >>

\* the hierarchy Track
TrackHier == [Name |-> <<84>>, Levels |-> << [Type |-> "track", Sort |-> << <<"-", "title">> >>] >>]

\* cfg.Cnt of the server: hierarchies, music_dirs, show_folders
DefaultCfg == [Hiers |-> Hiers, MusicDirs |-> MusicDirs, ShowFolders |-> FALSE]

\* the configurations of the larger library: folders below one music
\* directory, an album level, folders below two music directories
LibCfgs ==
    {[Hiers |-> <<TrackHier>>, MusicDirs |-> <<sM>>, ShowFolders |-> TRUE],
     [Hiers |-> Hiers, MusicDirs |-> <<sM>>, ShowFolders |-> FALSE],
     [Hiers |-> <<TrackHier>>, MusicDirs |-> <<sM, sN>>, ShowFolders |-> TRUE]}

\* hierarchies Album -> Track: the albums with the one changed last first,
\* the tracks by title, or by title and then by descending track number
AlbumHier(trackSort) ==
    [Name |-> <<65>>,
     Levels |-> << [Type |-> "album", Sort |-> << <<"-", "lastChange">> >>],
                   [Type |-> "track", Sort |-> trackSort] >>]

\* the configurations of the library of albums
AlbumCfgs ==
    {[Hiers |-> <<AlbumHier(ts)>>, MusicDirs |-> <<sM, sN>>, ShowFolders |-> FALSE] :
         ts \in {<< <<"+", "title">> >>, << <<"+", "title">>, <<"-", "trackNo">> >>}}

\* splitSort: the order indicator and the sort field of a sort string
splitSort(s) == IF s[1] \in {"+", "-"} THEN [ord |-> s[1], sf |-> s[2]] ELSE [ord |-> "+", sf |-> s[2]]

\* level.SortFields
SortFields(lvl) == [i \in 1..Len(lvl.Sort) |-> splitSort(lvl.Sort[i]).sf]

\* level.Comparisons: "+" is a < b, "-" is a > b
Comparisons(lvl) == [i \in 1..Len(lvl.Sort) |-> splitSort(lvl.Sort[i]).ord]

\* allowedHierarchies: the allowed successors of a level type
allowedHierarchies ==
    [genre |-> {"albumartist", "artist", "album", "track"},
     albumartist |-> {"album"},
     artist |-> {"track"},
     album |-> {"track"},
     track |-> {}]

\* allowedSortFields: level types without an entry yield the nil slice
allowedSortFields(type) ==
    IF type = "album" THEN {"title", "year", "lastChange"}
    ELSE IF type = "track" THEN {"title", "year", "lastChange", "trackNo", "discNo"}
    ELSE {}

\* the sort string s is the empty string
emptySort(s) == s[1] = "" /\ s[2] = ""

\* validateSort: "" for nil, else the error
validateSort(s) ==
    IF emptySort(s) THEN ""
    ELSE IF splitSort(s).sf \notin {"", "title", "trackNo", "discNo", "year", "lastChange"} THEN "noValidSortField"
    ELSE ""

RECURSIVE validateSorts(_, _, _)
\* Hierarchy.validate, the loop over level.Sort from entry j on, err being the
\* value of the named result: ret tells that the function has returned
validateSorts(level, j, err) ==
    IF j > Len(level.Sort) THEN [ret |-> FALSE, err |-> err]
    ELSE IF validateSort(level.Sort[j]) # "" THEN [ret |-> TRUE, err |-> validateSort(level.Sort[j])]
    ELSE IF emptySort(level.Sort[j]) THEN [ret |-> TRUE, err |-> "panic"]
    ELSE validateSorts(level, j + 1,
                       IF splitSort(level.Sort[j]).sf \in allowedSortFields(level.Type) THEN "" ELSE "cannotBeSortedBy")

RECURSIVE validateLevels(_, _, _)
\* Hierarchy.validate, what follows the sort loop of level i
validateLevelSorts(h, i, r) == IF r.ret THEN r.err ELSE validateLevels(h, i + 1, r.err)

\* Hierarchy.validate, the loop over me.Levels from level i on
validateLevels(h, i, err) ==
    IF i > Len(h.Levels) THEN err
    ELSE IF i = Len(h.Levels) /\ h.Levels[i].Type # "track" THEN "lastLevelMustBeTrack"
    ELSE IF h.Levels[i].Type \notin DOMAIN allowedHierarchies THEN "mustNotContainLevel"
    ELSE IF i < Len(h.Levels) /\ h.Levels[i + 1].Type \notin allowedHierarchies[h.Levels[i].Type]
         THEN "mustNotContainSuccessor"
    ELSE validateLevelSorts(h, i, validateSorts(h.Levels[i], 1, err))

\* Hierarchy.validate: "" for nil, "panic" for the index panic of splitSort on
\* the empty string, else the error returned
validate(h) ==
    IF Len(h.Name) = 0 THEN "noName"
    ELSE IF Len(h.Levels) = 0 THEN "noLevels"
    ELSE validateLevels(h, 1, "")

\* the sort fields Content.makeTree gives the children of the root: one per
\* hierarchy, then the playlist hierarchy, then the folder hierarchy; the
\* object created k-th has the id k
makeTreeSortFields(n, showPlaylists, showFolders) ==
    [id \in 1..(n + (IF showPlaylists THEN 1 ELSE 0) + (IF showFolders THEN 1 ELSE 0)) |-> [sf |-> <<Pad(id - 1, 2)>>]]

\* file.IsSub(parent, sub): sub is parent or lies below it
IsSub(parent, sub) ==
    /\ Len(parent) <= Len(sub)
    /\ \A i \in 1..Len(parent) : sub[i] = parent[i]
    /\ (Len(sub) = Len(parent) \/ sub[Len(parent) + 1] = 47)

\* the tags tag.ReadFrom delivers for the files of the music directory
TagsOf(path) ==
    IF path = pA THEN
        [title |-> <<97>>, album |-> <<88>>, artists |-> << <<65>> >>, albumArtists |-> << <<65>> >>,
         genres |-> << <<82>> >>, year |-> 2001, trackNo |-> 2, discNo |-> 1, compilation |-> FALSE]
    ELSE IF path = pB THEN
        [title |-> <<66>>, album |-> <<88>>, artists |-> << <<65>> >>, albumArtists |-> << <<65>> >>,
         genres |-> << <<80>>, <<82>> >>, year |-> 2001, trackNo |-> 1, discNo |-> 1, compilation |-> FALSE]
    ELSE IF path = pD THEN
        [title |-> <<100>>, album |-> <<>>, artists |-> << <<65>> >>, albumArtists |-> << <<65>> >>,
         genres |-> << <<82>> >>, year |-> 2001, trackNo |-> 1, discNo |-> 1, compilation |-> FALSE]
    ELSE IF path = pE THEN
        [title |-> <<97>>, album |-> <<88>>, artists |-> << <<65>> >>, albumArtists |-> << <<65>> >>,
         genres |-> << <<82>> >>, year |-> 2001, trackNo |-> 3, discNo |-> 1, compilation |-> FALSE]
    ELSE IF path = pG THEN
        [title |-> <<>>, album |-> <<88>>, artists |-> << <<65>> >>, albumArtists |-> << <<65>> >>,
         genres |-> << <<82>> >>, year |-> 2001, trackNo |-> 4, discNo |-> 1, compilation |-> FALSE]
    ELSE IF path = pF THEN
        [title |-> <<103>>, album |-> <<90>>, artists |-> << <<67>> >>, albumArtists |-> << <<67>> >>,
         genres |-> << <<80>> >>, year |-> 2002, trackNo |-> 1, discNo |-> 1, compilation |-> FALSE]
    ELSE
        [title |-> <<99>>, album |-> <<89>>, artists |-> << <<66>> >>, albumArtists |-> << <<66>> >>,
         genres |-> << <<82>> >>, year |-> 999, trackNo |-> 1, discNo |-> 1, compilation |-> FALSE]

\* the embedded picture of a file: 0 is none, otherwise the hash of its resized bytes
PicOf(path) == IF path = pC THEN 0 ELSE 7

\* ---------------------------------------------------------------------------
\* Object model (object.go): objects live in a heap indexed by their ObjID
\* ---------------------------------------------------------------------------
\* newObj
newObj(id, name) == [i |-> id, n |-> name, k |-> HashUint64(name), sf |-> <<ToLower(name)>>, p |-> Nil]

\* newCtr: a generic container with the default comparison a < b
newCtr(id, name) ==
    Merge(newObj(id, name),
          [kind |-> "ctr", mf |-> "container", updCount |-> 0,
           byID |-> {}, byKey |-> <<>>, inOrder |-> <<>>, comps |-> <<"+">>])

\* newItm
newItm(id, name) == Merge(newObj(id, name), [kind |-> "itm", mf |-> "none"])

\* ctr.isContainer / obj.isContainer
isContainer(o) == o.kind \in {"ctr", "album", "albumRef"}

\* the less function refs.item hands to sort.Slice
Less(h, comps, x, y) ==
    \E k \in 1..Len(comps) :
        /\ \A j \in 1..(k - 1) : h[x].sf[j] = h[y].sf[j]
        /\ h[x].sf[k] # h[y].sf[k]
        /\ IF comps[k] = "+" THEN StrLess(h[x].sf[k], h[y].sf[k]) ELSE StrLess(h[y].sf[k], h[x].sf[k])

\* obj.sortField(k) indexes sf without a bounds check
LessPanics(h, comps, x, y) ==
    \E k \in 1..Len(comps) :
        /\ k > Len(h[x].sf) \/ k > Len(h[y].sf)
        /\ \A j \in 1..(k - 1) : h[x].sf[j] = h[y].sf[j]

RECURSIVE SortIds(_, _, _, _)
\* sort.Slice over the values of byID: children that compare equal come out in
\* an unspecified order, chosen here by tb
SortIds(S, h, comps, tb) ==
    IF S = {} THEN <<>>
    ELSE LET M == {y \in S : \A z \in S \ {y} : ~Less(h, comps, z, y)}
             x == CHOOSE y \in M : \A z \in M : IF tb = 1 THEN y <= z ELSE y >= z
         IN  <<x>> \o SortIds(S \ {x}, h, comps, tb)

\* refs.item, first half: build inOrder if it is empty
Touch(g, c, tb) ==
    IF g.halt # "" \/ Len(g.heap[c].inOrder) # 0 THEN g
    ELSE IF \E x, y \in g.heap[c].byID : x # y /\ LessPanics(g.heap, g.heap[c].comps, x, y)
         THEN [g EXCEPT !.halt = "panic"]
    ELSE [g EXCEPT !.heap[c].inOrder = SortIds(g.heap[c].byID, g.heap, g.heap[c].comps, tb)]

\* refs.item, second half: inOrder[index] of a container whose order is built
item(g, c, index) == g.heap[c].inOrder[index + 1]

\* ctr.numChildren / refs.len
numChildren(g, c) == Cardinality(g.heap[c].byID)

\* Content.traceUpdate
traceUpdate(g, id) ==
    [g EXCEPT !.updCounts = Put(@, id, IF id \in DOMAIN @ THEN @[id] + 1 ELSE 1)]

\* refs.add and obj.setParent; ops counts the add-child and remove-child
\* operations per container since the delta map was created, cops those
\* since the container's update counter was last reset (history)
refsAdd(g, c, o) ==
    [g EXCEPT !.ops = Put(@, c, IF c \in DOMAIN @ THEN @[c] + 1 ELSE 1),
              !.cops = Put(@, c, IF c \in DOMAIN @ THEN @[c] + 1 ELSE 1),
              !.heap[c].byID = @ \cup {o},
              !.heap[c].byKey = Put(@, g.heap[o].k, o),
              !.heap[c].inOrder = <<>>,
              !.heap[o].p = c]

\* refs.del and obj.setParent(nil)
refsDel(g, c, o) ==
    [g EXCEPT !.ops = Put(@, c, IF c \in DOMAIN @ THEN @[c] + 1 ELSE 1),
              !.cops = Put(@, c, IF c \in DOMAIN @ THEN @[c] + 1 ELSE 1),
              !.heap[c].byID = @ \ {o},
              !.heap[c].byKey = Del(@, g.heap[o].k),
              !.heap[c].inOrder = <<>>,
              !.heap[o].p = Nil]

\* ctr.addChild
ctrAddChild(g, c, o) == traceUpdate(refsAdd(g, c, o), c)

\* ctr.delChild without the call of traceUpdate
ctrDelChildUntraced(g, c, o) == refsDel(g, c, o)

\* ctr.delChild
ctrDelChild(g, c, o) == traceUpdate(refsDel(g, c, o), c)

\* for _, aRef := range me.refs { aRef.parent().invalidateOrder() }
invalidateRefParents(g, a) ==
    LET rs == {g.heap[a].arefs[j] : j \in 1..Len(g.heap[a].arefs)}
        ps == {g.heap[r].p : r \in rs}
    IN  IF Nil \in ps THEN [g EXCEPT !.halt = "panic"]
        ELSE [g EXCEPT !.heap = [x \in DOMAIN @ |-> IF x \in ps THEN [@[x] EXCEPT !.inOrder = <<>>] ELSE @[x]]]

\* album.addChild
albumAddChild(g, a, t) ==
    IF g.heap[t].kind # "track" THEN g
    ELSE LET g1 == traceUpdate(refsAdd(g, a, t), a)
         IN  IF g1.heap[t].lastChange > g1.heap[a].lastChange
             THEN invalidateRefParents([g1 EXCEPT !.heap[a].lastChange = g1.heap[t].lastChange], a)
             ELSE g1

\* the maximum of the children's lastChange, 0 without children
maxLastChange(g, a) ==
    IF g.heap[a].byID = {} THEN 0
    ELSE LET m == CHOOSE x \in g.heap[a].byID : \A y \in g.heap[a].byID : g.heap[y].lastChange <= g.heap[x].lastChange
         IN  IF g.heap[m].lastChange > 0 THEN g.heap[m].lastChange ELSE 0

\* album.delChild
albumDelChild(g, a, t, tb) ==
    LET g1 == traceUpdate(refsDel(g, a, t), a)
    IN  IF g1.heap[t].lastChange = g1.heap[a].lastChange
        THEN LET g2 == Touch(g1, a, tb)
             IN  IF g2.halt # "" THEN g2
                 ELSE invalidateRefParents([g2 EXCEPT !.heap[a].lastChange = maxLastChange(g2, a)], a)
        ELSE g1

\* track.albumKey
albumKey(tgs) ==
    HashUint64(<<91>> \o JoinStrs(tgs.albumArtists) \o <<93>> \o tgs.album \o Digits(tgs.year)
               \o (IF tgs.compilation THEN <<116, 114, 117, 101>> ELSE <<102, 97, 108, 115, 101>>))

\* newAlbum
newAlbum(g, key) ==
    LET id == g.newID + 1
        a == Merge(newCtr(id, <<>>),
                   [kind |-> "album", mf |-> "album", k |-> key, year |-> 0, compilation |-> FALSE,
                    artists |-> <<>>, lastChange |-> 0, arefs |-> <<>>])
    IN  [g EXCEPT !.newID = id, !.heap = Put(@, id, a), !.objects = @ \cup {id}, !.albums = Put(@, key, id)]

RECURSIVE sortFieldsOf(_, _, _)
\* the sort fields newTrackRef / newAlbumRef assemble: an empty rendering is left out
sortFieldsOf(o, sfs, isTrack) ==
    IF Len(sfs) = 0 THEN <<>>
    ELSE LET sf == sfs[1]
             s == IF isTrack
                  THEN (IF sf = "discNo" THEN Pad(o.tags.discNo, 3)
                        ELSE IF sf = "lastChange" THEN Pad(o.lastChange, 20)
                        ELSE IF sf = "title" THEN o.tags.title
                        ELSE IF sf = "trackNo" THEN Pad(o.tags.trackNo, 4)
                        ELSE IF sf = "year" THEN Digits(o.tags.year)
                        ELSE <<>>)
                  ELSE (IF sf = "lastChange" THEN Pad(o.lastChange, 20)
                        ELSE IF sf = "title" THEN o.n
                        ELSE IF sf = "year" THEN Digits(o.year)
                        ELSE <<>>)
         IN  (IF Len(s) > 0 THEN <<s>> ELSE <<>>) \o sortFieldsOf(o, Tail(sfs), isTrack)

\* track.newTrackRef
newTrackRef(g, t, sfs) ==
    LET id == g.newID + 1
        r0 == Merge(newItm(id, g.heap[t].n), [kind |-> "trackRef", mf |-> "trackRef", track |-> t])
        r == IF Len(sfs) > 0 THEN [r0 EXCEPT !.sf = sortFieldsOf(g.heap[t], sfs, TRUE)] ELSE r0
    IN  [g EXCEPT !.newID = id,
                  !.heap = Put([@ EXCEPT ![t].trefs = @ \cup {id}], id, r),
                  !.objects = @ \cup {id}]

\* album.newAlbumRef
newAlbumRef(g, a, sfs) ==
    LET id == g.newID + 1
        r0 == Merge(newCtr(id, g.heap[a].n),
                    [kind |-> "albumRef", mf |-> "albumRef", album |-> a, k |-> g.heap[a].k])
        r == IF Len(sfs) > 0 THEN [r0 EXCEPT !.sf = sortFieldsOf(g.heap[a], sfs, FALSE)] ELSE r0
    IN  [g EXCEPT !.newID = id,
                  !.heap = Put([@ EXCEPT ![a].arefs = Append(@, id)], id, r),
                  !.objects = @ \cup {id}]

\* ---------------------------------------------------------------------------
\* Content (content.go, hierarchies.go, track.go)
\* A graph value g holds the fields of Content, the count of the running
\* update, the cover workers not yet finished (picJobs) and halt: "" while the
\* process runs, "fatal" after log.Fatal (logrus logs and exits the process),
\* "panic" after a runtime panic.
\* ---------------------------------------------------------------------------
\* Content.makeTree, the loop over the configured hierarchies (show_playlists is off)
RECURSIVE makeHiers(_, _)
makeHiers(g, i) ==
    IF i >= Len(g.cfg.Hiers) THEN g
    ELSE LET id == g.newID + 1
             hier == [newCtr(id, g.cfg.Hiers[i + 1].Name) EXCEPT !.sf = <<Pad(i, 2)>>]
             g1 == ctrAddChild([g EXCEPT !.newID = id, !.heap = Put(@, id, hier)], 0, id)
             g2 == [g1 EXCEPT !.heap[id].comps = Comparisons(g.cfg.Hiers[i + 1].Levels[1]),
                              !.objects = @ \cup {id}]
         IN  makeHiers(g2, i + 1)

\* Content.makeTree, its end: the folder hierarchy (named "F" here)
makeFolderHier(g) ==
    IF ~g.cfg.ShowFolders THEN g
    ELSE LET id == g.newID + 1
             hier == [newCtr(id, <<70>>) EXCEPT !.sf = <<Pad(Len(g.cfg.Hiers), 2)>>]
             g1 == ctrAddChild([g EXCEPT !.newID = id, !.heap = Put(@, id, hier)], 0, id)
         IN  [g1 EXCEPT !.objects = @ \cup {id}]

\* content.New(cfg)
NewContent(cfg) ==
    makeFolderHier(
        makeHiers([heap |-> (0 :> newCtr(0, <<114, 111, 111, 116>>)), objects |-> {0},
                   tracks |-> <<>>, albums |-> <<>>, folders |-> <<>>, pics |-> {}, newID |-> 0,
                   updCounts |-> <<>>, ops |-> <<>>, cops |-> <<>>, count |-> 0, picJobs |-> {}, halt |-> "",
                   cfg |-> cfg], 0))

\* Content.New
New == NewContent(DefaultCfg)

\* newTrack: ok is the outcome of trackInfo.metadata; lc the file's lastChange
newTrack(g, path, lc, ok) ==
    IF ~ok THEN [g EXCEPT !.halt = "fatal"]
    ELSE
    LET tgs == TagsOf(path)
        id == g.newID + 1
        t == Merge(newItm(id, tgs.title),
                   [kind |-> "track", mf |-> "track", tags |-> tgs, picID |-> [id |-> 0, valid |-> FALSE],
                    lastChange |-> lc, path |-> path, trefs |-> {}])
        g1 == [g EXCEPT !.newID = id, !.heap = Put(@, id, t), !.tracks = Put(@, path, id),
                        !.objects = @ \cup {id}, !.picJobs = @ \cup {id}, !.count = @ + 1]
        key == albumKey(tgs)
    IN  IF Len(tgs.album) > 0
        THEN LET g2 == IF key \in DOMAIN g1.albums THEN g1
                       ELSE LET n == newAlbum(g1, key)
                            IN  [n EXCEPT !.heap[n.newID].n = tgs.album,
                                          !.heap[n.newID].year = tgs.year,
                                          !.heap[n.newID].compilation = tgs.compilation,
                                          !.heap[n.newID].artists = tgs.albumArtists,
                                          !.heap[n.newID].lastChange = lc]
                 g3 == albumAddChild(g2, g2.albums[key], id)
             IN  [g3 EXCEPT !.count = @ + 1]
        ELSE g1

\* pictures.add, run by one cover worker for track t
picturesAdd(g, t) ==
    LET pic == PicOf(g.heap[t].path)
        g1 == [g EXCEPT !.picJobs = @ \ {t}]
    IN  IF pic = 0 THEN g1
        ELSE [g1 EXCEPT !.heap[t].picID = [id |-> pic, valid |-> TRUE], !.pics = @ \cup {pic}]

\* Content.addTrackToSubHierarchy
addTrackToSubHierarchy(g, hier, index, c, t) ==
    LET g1 == newTrackRef(g, t, SortFields(hier.Levels[Len(hier.Levels)]))
        tRef == g1.newID
        g2 == [g1 EXCEPT !.count = @ + 1]
        key == albumKey(g.heap[t].tags)
    IN  IF hier.Levels[index + 1].Type # "album"
        THEN [ctrAddChild(g2, c, tRef) EXCEPT !.count = @ + 1]
        ELSE IF key \in DOMAIN g2.heap[c].byKey
        THEN [ctrAddChild(g2, g2.heap[c].byKey[key], tRef) EXCEPT !.count = @ + 1]
        ELSE IF key \notin DOMAIN g2.albums
        THEN [g2 EXCEPT !.halt = "fatal"]
        ELSE LET g3 == newAlbumRef(g2, g2.albums[key], SortFields(hier.Levels[index + 1]))
                 aRef == g3.newID
                 g4 == [g3 EXCEPT !.heap[aRef].comps = Comparisons(hier.Levels[index + 2])]
                 g5 == [ctrAddChild(g4, c, aRef) EXCEPT !.count = @ + 1]
             IN  [ctrAddChild(g5, aRef, tRef) EXCEPT !.count = @ + 1]

\* track.tagsByLevelType
tagsByLevelType(t, lvl) ==
    IF lvl = "genre" THEN t.tags.genres
    ELSE IF lvl = "albumartist" THEN t.tags.albumArtists
    ELSE IF lvl = "artist" THEN t.tags.artists
    ELSE <<>>

\* marshalFuncMux
marshalFuncMux(lvl) ==
    IF lvl \in {"albumartist", "artist", "genre"} THEN lvl ELSE "container"

RECURSIVE addTrackToHierarchyLevel(_, _, _, _, _)
RECURSIVE addTrackTags(_, _, _, _, _, _)
\* Content.addTrackToHierarchyLevel
addTrackToHierarchyLevel(g, hier, index, c, t) ==
    IF g.halt # "" THEN g
    ELSE IF hier.Levels[index + 1].Type \in {"album", "track"}
    THEN addTrackToSubHierarchy(g, hier, index, c, t)
    ELSE addTrackTags(g, hier, index, c, t, 1)

\* the loop of addTrackToHierarchyLevel over the tag values, from value i on
addTrackTags(g, hier, index, c, t, i) ==
    LET tgs == tagsByLevelType(g.heap[t], hier.Levels[index + 1].Type)
    IN  IF g.halt # "" \/ i > Len(tgs) THEN g
        ELSE LET key == HashUint64(tgs[i])
                 exists == key \in DOMAIN g.heap[c].byKey
                 id == g.newID + 1
                 ctrNew == [newCtr(id, tgs[i]) EXCEPT !.mf = marshalFuncMux(hier.Levels[index + 1].Type)]
                 g1 == IF exists THEN g
                       ELSE LET a == ctrAddChild([g EXCEPT !.newID = id, !.heap = Put(@, id, ctrNew)], c, id)
                            IN  [a EXCEPT !.count = @ + 1,
                                          !.heap[id].comps = Comparisons(hier.Levels[index + 2]),
                                          !.objects = @ \cup {id}]
                 ctrNext == IF exists THEN g.heap[c].byKey[key] ELSE id
             IN  addTrackTags(addTrackToHierarchyLevel(g1, hier, index + 1, ctrNext, t), hier, index, c, t, i + 1)

RECURSIVE addTrackToHiers(_, _, _, _)
\* the loop of Content.addTrack over the configured hierarchies, from hierarchy i on
addTrackToHiers(g, t, i, tb) ==
    IF g.halt # "" \/ i >= Len(g.cfg.Hiers) THEN g
    ELSE LET g1 == Touch(g, 0, tb)
         IN  IF g1.halt # "" THEN g1
             ELSE IF i >= Len(g1.heap[0].inOrder) THEN [g1 EXCEPT !.halt = "panic"]
             ELSE addTrackToHiers(addTrackToHierarchyLevel(g1, g.cfg.Hiers[i + 1], 0, item(g1, 0, i), t), t, i + 1, tb)

\* p.Base of a slash-separated path
Base(path) ==
    LET S == {i \in 1..Len(path) : path[i] = 47}
        k == IF S = {} THEN 0 ELSE CHOOSE i \in S : \A j \in S : j <= i
    IN  SubSeq(path, k + 1, Len(path))

\* cnt.MusicDir of an absolute path: the first music directory it lies below
MusicDir(cfg, path) ==
    LET S == {d \in 1..Len(cfg.MusicDirs) : IsSub(cfg.MusicDirs[d], path)}
    IN  IF S = {} THEN <<>> ELSE cfg.MusicDirs[CHOOSE d \in S : \A e \in S : d <= e]

RECURSIVE SplitPath(_)
\* file.SplitPath: the elements of a path
SplitPath(path) ==
    IF Len(path) = 0 THEN <<>>
    ELSE IF path[1] = 47 THEN SplitPath(Tail(path))
    ELSE LET S == {i \in 1..Len(path) : path[i] = 47}
             k == IF S = {} THEN Len(path) + 1 ELSE CHOOSE i \in S : \A j \in S : i <= j
         IN  <<SubSeq(path, 1, k - 1)>> \o SplitPath(SubSeq(path, k + 1, Len(path)))

\* the folder of path pth: the one me.folders knows, or the one to create
folderAt(g, pth) == IF pth \in DOMAIN g.folders THEN g.folders[pth] ELSE g.newID + 1

\* if !exists { f = folder{...}; me.folders.add(path, f); me.objects.add(f) }
withFolder(g, pth) ==
    IF pth \in DOMAIN g.folders THEN g
    ELSE [g EXCEPT !.newID = @ + 1,
                   !.heap = Put(@, g.newID + 1, [newCtr(g.newID + 1, Base(pth)) EXCEPT !.mf = "folder"]),
                   !.folders = Put(@, pth, g.newID + 1),
                   !.objects = @ \cup {g.newID + 1}]

RECURSIVE addFolders(_, _, _, _, _, _)
\* the loop of addTrackToFolderHierarchy over dirs, from element i (counted
\* from 0) on: a folder that me.folders knows is attached again as it is
addFolders(g, c, tRef, dirs, i, path) ==
    IF i >= Len(dirs) THEN g
    ELSE IF i = Len(dirs) - 1 THEN [ctrAddChild(g, c, tRef) EXCEPT !.count = @ + 1]
    ELSE addFolders([ctrAddChild(withFolder(g, path \o <<47>> \o dirs[i + 1]), c,
                                 folderAt(g, path \o <<47>> \o dirs[i + 1])) EXCEPT !.count = @ + 1],
                    folderAt(g, path \o <<47>> \o dirs[i + 1]), tRef, dirs, i + 1, path \o <<47>> \o dirs[i + 1])

\* the container of the music directory below the folder hierarchy c: the
\* existing one, or the one to create
ctrDirOf(g, c, musicDir) ==
    IF Len(g.cfg.MusicDirs) <= 1 THEN c
    ELSE IF HashUint64(musicDir) \in DOMAIN g.heap[c].byKey THEN g.heap[c].byKey[HashUint64(musicDir)]
    ELSE g.newID + 1

\* if len(MusicDirs) > 1: a new container of the music directory is attached
\* twice, while objects.add is handed the hierarchy container
withCtrDir(g, c, musicDir) ==
    IF Len(g.cfg.MusicDirs) <= 1 \/ HashUint64(musicDir) \in DOMAIN g.heap[c].byKey THEN g
    ELSE ctrAddChild([ctrAddChild([g EXCEPT !.newID = @ + 1,
                                            !.heap = Put(@, g.newID + 1, newCtr(g.newID + 1, musicDir))],
                                  c, g.newID + 1)
                         EXCEPT !.objects = @ \cup {c}, !.count = @ + 1],
                     c, g.newID + 1)

\* addTrackToFolderHierarchy after the track reference g.newID has been created
folderWalk(g, c, path, musicDir) ==
    addFolders(withCtrDir(g, c, musicDir), ctrDirOf(g, c, musicDir), g.newID,
               SplitPath(SubSeq(path, Len(musicDir) + 1, Len(path))), 0, musicDir)

\* tRef.sf = []string{p.Base(t.path)}
folderRef(g, path) == [g EXCEPT !.heap[g.newID].sf = <<Base(path)>>, !.count = @ + 1]

\* Content.addTrackToFolderHierarchy
addTrackToFolderHierarchy(g, c, t) ==
    folderWalk(folderRef(newTrackRef(g, t, <<>>), g.heap[t].path), c, g.heap[t].path,
               MusicDir(g.cfg, g.heap[t].path))

\* Content.addTrack, the loop over the configured hierarchies
addTrackToAllHiers(g, path, lc, ok, tb) ==
    LET g1 == newTrack(g, path, lc, ok)
    IN  IF g1.halt # "" THEN g1 ELSE addTrackToHiers(g1, g1.tracks[path], 0, tb)

\* me.root.childByIndex(len(Hiers)) of the sorted root, and the call of
\* addTrackToFolderHierarchy
folderOfRoot(g, path) ==
    IF g.halt # "" THEN g
    ELSE IF Len(g.cfg.Hiers) >= Len(g.heap[0].inOrder) THEN [g EXCEPT !.halt = "panic"]
    ELSE addTrackToFolderHierarchy(g, item(g, 0, Len(g.cfg.Hiers)), g.tracks[path])

\* Content.addTrack, if me.cfg.Cnt.ShowFolders
addTrackToFolders(g, path, tb) ==
    IF g.halt # "" \/ ~g.cfg.ShowFolders THEN g ELSE folderOfRoot(Touch(g, 0, tb), path)

\* Content.addTrack
addTrack(g, path, lc, ok, tb) == addTrackToFolders(addTrackToAllHiers(g, path, lc, ok, tb), path, tb)

RECURSIVE delUpwards(_, _, _)
\* the inner loop of Content.delTrack: remove obj from parent and go on with
\* the parent while it has been left without children
delUpwards(g, obj, parent) ==
    IF parent = Nil THEN [g EXCEPT !.halt = "panic"]
    ELSE IF g.heap[parent].p = Nil THEN g
    ELSE LET g1 == ctrDelChild([g EXCEPT !.objects = @ \ {obj}, !.count = @ + 1], parent, obj)
         IN  IF numChildren(g1, parent) > 0 THEN g1
             ELSE delUpwards(g1, parent, g.heap[parent].p)

RECURSIVE delTrackRefs(_, _)
\* the loop of Content.delTrack over t.refs (a Go map, visited here by ascending id;
\* the branches the references hang in are removed independently of one another)
delTrackRefs(g, rs) ==
    IF g.halt # "" \/ rs = {} THEN g
    ELSE LET r == CHOOSE x \in rs : \A y \in rs : x <= y
         IN  delTrackRefs(delUpwards(g, r, g.heap[r].p), rs \ {r})

\* delTrack that leaves an album without children in the album map
delTrackKeepsAlbum(g, path, tb) ==
    IF path \notin DOMAIN g.tracks THEN g
    ELSE LET t == g.tracks[path]
             g1 == [g EXCEPT !.count = @ + 1, !.tracks = Del(@, path), !.objects = @ \ {t}]
             key == albumKey(g.heap[t].tags)
             g2 == IF key \in DOMAIN g1.albums THEN albumDelChild(g1, g1.albums[key], t, tb) ELSE g1
         IN  delTrackRefs(g2, g2.heap[t].trefs)

\* Content.delTrack
delTrack(g, path, tb) ==
    IF path \notin DOMAIN g.tracks THEN g
    ELSE LET t == g.tracks[path]
             g1 == [g EXCEPT !.count = @ + 1, !.tracks = Del(@, path), !.objects = @ \ {t}]
             key == albumKey(g.heap[t].tags)
             g2 == IF key \in DOMAIN g1.albums
                   THEN LET a == g1.albums[key]
                            d == albumDelChild(g1, a, t, tb)
                        IN  IF d.halt = "" /\ numChildren(d, a) = 0
                            THEN [d EXCEPT !.objects = @ \ {a}, !.albums = Del(@, key), !.count = @ + 1]
                            ELSE d
                   ELSE g1
         IN  delTrackRefs(g2, g2.heap[t].trefs)

\* cleanup that keeps every picture
cleanupKeepsAll(g) == g

\* Content.cleanup
cleanup(g) ==
    [g EXCEPT !.pics = {g.heap[g.tracks[p]].picID.id :
                            p \in {q \in DOMAIN g.tracks : g.heap[g.tracks[q]].picID.valid}} \cap @]

\* ---------------------------------------------------------------------------
\* File infos, scanning and the diff (fileinfo.go, updater.go)
\* A disk value maps each path to [exists, lc]; a file info is [path, lc],
\* where lc = 0 means that lastChange is read from the file on first use.
\* ---------------------------------------------------------------------------
\* files whose tags cannot be read (trackInfo.metadata returns an error)
Unreadable == {pC}

\* baseInfo.lastChange
lastChange(fi, disk) == IF fi.lc # 0 THEN fi.lc ELSE disk[fi.path].lc

RECURSIVE SortPaths(_)
\* sort.Sort(fis) on a duplicate-free set of paths
SortPaths(S) ==
    IF S = {} THEN <<>>
    ELSE LET x == CHOOSE y \in S : \A z \in S : ~StrLess(z, y)
         IN  <<x>> \o SortPaths(S \ {x})

\* filesFromDir for every directory of dirs: the valid files below it, sorted by path
filesFromDirs(disk, dirs) ==
    LET S == {p \in DOMAIN disk : disk[p].exists /\ \E d \in 1..Len(dirs) : IsSub(dirs[d], p)}
        ps == SortPaths(S)
    IN  [i \in 1..Len(ps) |-> [path |-> ps[i], lc |-> 0]]

\* Content.filesByPaths: the tracks p with file.IsSub(p, path) for a path of
\* paths, in the iteration order of the tracks map (ord)
filesByPaths(g, paths, ord) ==
    LET S == {p \in DOMAIN g.tracks : \E i \in 1..Len(paths) : IsSub(p, paths[i])}
        ps == IF ord = 1 THEN SortPaths(S) ELSE [i \in 1..Cardinality(S) |-> SortPaths(S)[Cardinality(S) + 1 - i]]
    IN  [i \in 1..Len(ps) |-> [path |-> ps[i], lc |-> g.heap[g.tracks[ps[i]]].lastChange]]

RECURSIVE diffLoop(_, _, _, _, _, _, _)
\* the loop of diff; i and j count from 0 as in the code
diffLoop(fiCnt, fiDir, i, j, fiDel, fiAdd, disk) ==
    IF ~(i < Len(fiCnt) \/ j < Len(fiDir)) THEN [del |-> fiDel, add |-> fiAdd]
    ELSE IF i >= Len(fiCnt) \/ (j < Len(fiDir) /\ StrLess(fiDir[j + 1].path, fiCnt[i + 1].path))
    THEN diffLoop(fiCnt, fiDir, i, j + 1, fiDel, Append(fiAdd, fiDir[j + 1]), disk)
    ELSE IF j >= Len(fiDir) \/ (i < Len(fiCnt) /\ StrLess(fiCnt[i + 1].path, fiDir[j + 1].path))
    THEN diffLoop(fiCnt, fiDir, i + 1, j, Append(fiDel, fiCnt[i + 1]), fiAdd, disk)
    ELSE IF lastChange(fiCnt[i + 1], disk) < lastChange(fiDir[j + 1], disk)
    THEN diffLoop(fiCnt, fiDir, i + 1, j + 1, Append(fiDel, fiCnt[i + 1]),
                  Append(fiAdd, [fiDir[j + 1] EXCEPT !.lc = lastChange(fiDir[j + 1], disk)]), disk)
    ELSE diffLoop(fiCnt, fiDir, i + 1, j + 1, fiDel, fiAdd, disk)

\* diff that returns nothing when the content holds no file
diffNothingToAdd(fiCnt, fiDir, disk) ==
    IF Len(fiCnt) = 0 THEN [del |-> <<>>, add |-> <<>>]
    ELSE IF Len(fiDir) = 0 THEN [del |-> fiCnt, add |-> <<>>]
    ELSE diffLoop(fiCnt, fiDir, 0, 0, <<>>, <<>>, disk)

\* diff
diff(fiCnt, fiDir, disk) ==
    IF Len(fiCnt) = 0 THEN [del |-> <<>>, add |-> fiDir]
    ELSE IF Len(fiDir) = 0 THEN [del |-> fiCnt, add |-> <<>>]
    ELSE diffLoop(fiCnt, fiDir, 0, 0, <<>>, <<>>, disk)

\* fullScan
fullScan(g, disk, ord) == diff(filesByPaths(g, g.cfg.MusicDirs, ord), filesFromDirs(disk, g.cfg.MusicDirs), disk)

\* ---------------------------------------------------------------------------
\* Content.update and Content.procUpdates
\* ---------------------------------------------------------------------------
\* the head of Content.update: the update counters start empty
updateBegin(g) == [g EXCEPT !.updCounts = <<>>, !.ops = <<>>, !.count = 0]

\* one iteration of the loop of procUpdates: the delete or add of one file
procUpdate(g, fi, isAdd, disk, tb) ==
    IF g.halt # "" THEN g
    ELSE IF isAdd
    THEN addTrack(g, fi.path, lastChange(fi, disk), disk[fi.path].exists /\ fi.path \notin Unreadable, tb)
    ELSE delTrack(g, fi.path, tb)

RECURSIVE procUpdates(_, _, _, _, _)
\* procUpdates over all files of fis, the cover workers joined at the end (wg.Wait)
procUpdates(g, fis, isAdd, disk, tb) ==
    IF g.halt # "" THEN g
    ELSE IF Len(fis) = 0
    THEN (IF g.picJobs = {} THEN g
          ELSE procUpdates(picturesAdd(g, CHOOSE t \in g.picJobs : TRUE), fis, isAdd, disk, tb))
    ELSE procUpdates(procUpdate(g, fis[1], isAdd, disk, tb), Tail(fis), isAdd, disk, tb)

\* the tail of Content.update: cleanup, unless log.Fatal has ended the process
updateEnd(g) == IF g.halt # "" THEN g ELSE cleanup(g)

\* Content.update, run as a whole: the deletes, the adds, cleanup
update(g, fiDel, fiAdd, disk, tb) ==
    updateEnd(procUpdates(procUpdates(updateBegin(g), fiDel, FALSE, disk, tb), fiAdd, TRUE, disk, tb))

RECURSIVE formatUpdates(_, _)
formatUpdates(ids, m) ==
    IF Len(ids) = 0 THEN <<>> ELSE <<ids[1], m[ids[1]]>> \o formatUpdates(Tail(ids), m)

\* Content.ContainerUpdateIDs: the list id1,count1,id2,count2,... of the delta
\* map (written here by ascending id; a Go map has no order)
ContainerUpdateIDs(g) == formatUpdates(SetToSeq(DOMAIN g.updCounts, 1), g.updCounts)

\* ---------------------------------------------------------------------------
\* Browse and the DIDL-Lite marshalling (content.go, marshal.go)
\* A marshalled payload is the sequence of its elements; a marshal result is
\* [out, panic], panic being a nil dereference or an index out of range.
\* ---------------------------------------------------------------------------
ModeMetadata == "BrowseMetadata"
ModeChildren == "BrowseDirectChildren"

\* a uint32 as <<high 16 bits, low 16 bits>>; n is an int of small magnitude
U32(n) ==
    IF n >= 0 THEN <<(n \div 65536) % 65536, n % 65536>>
    ELSE LET m == (-n) - 1 IN <<65535 - ((m \div 65536) % 65536), 65535 - (m % 65536)>>

\* indices
indices(start, wanted, len) ==
    [first |-> start,
     last |-> IF wanted = 0 THEN len
              ELSE IF start + wanted > len THEN len ELSE start + wanted]

\* newTrackMarshalFunc: the inner metadata of a track
marshalTrack(g, t) ==
    [out |-> <<[el |-> "track", title |-> g.heap[t].tags.title, class |-> "object.item.audioItem.musicTrack",
                pic |-> g.heap[t].picID, res |-> g.heap[t].path]>>,
     panic |-> FALSE]

\* newAlbumMarshalFunc: the inner metadata of an album, whatever the mode
marshalAlbum(g, a) ==
    IF g.heap[a].byID = {} THEN [out |-> <<>>, panic |-> TRUE]
    ELSE [out |-> <<[el |-> "album", title |-> g.heap[a].n, class |-> "object.container.album.musicAlbum",
                     year |-> g.heap[a].year]>>,
          panic |-> FALSE]

\* the class a container marshal function writes
classOf(mf) ==
    IF mf = "genre" THEN "object.container.genre.musicGenre"
    ELSE IF mf \in {"artist", "albumartist"} THEN "object.container.person.musicArtist"
    ELSE "object.container"

\* marshal(ModeMetadata, 0, 0) of object o
marshalMetadata(g, o) ==
    LET ob == g.heap[o]
    IN  IF ob.mf = "container"
        THEN [out |-> <<[el |-> "container", id |-> o, parentID |-> ob.p, childCount |-> numChildren(g, o),
                         title |-> ob.n, class |-> classOf(ob.mf)]>>,
              panic |-> FALSE]
        ELSE IF ob.mf \in {"genre", "artist", "albumartist"}
        THEN (IF ob.p = Nil THEN [out |-> <<>>, panic |-> TRUE]
              ELSE [out |-> <<[el |-> "container", id |-> o, parentID |-> ob.p, childCount |-> numChildren(g, o),
                               title |-> ob.n, class |-> classOf(ob.mf)]>>,
                    panic |-> FALSE])
        ELSE IF ob.mf = "albumRef"
        THEN (IF ob.p = Nil THEN [out |-> <<>>, panic |-> TRUE]
              ELSE LET m == marshalAlbum(g, ob.album)
                   IN  [out |-> <<[el |-> "container", id |-> o, parentID |-> ob.p,
                                   childCount |-> numChildren(g, o), inner |-> m.out]>>,
                        panic |-> m.panic])
        ELSE IF ob.mf = "album" THEN marshalAlbum(g, o)
        ELSE IF ob.mf = "track" THEN marshalTrack(g, o)
        ELSE IF ob.mf = "trackRef"
        THEN (IF ob.p = Nil THEN [out |-> <<>>, panic |-> TRUE]
              ELSE [out |-> <<[el |-> "item", id |-> o, refID |-> ob.track, parentID |-> ob.p,
                               inner |-> marshalTrack(g, ob.track).out]>>,
                    panic |-> FALSE])
        ELSE [out |-> <<>>, panic |-> FALSE]

RECURSIVE marshalChildren(_, _, _, _)
\* the loop for i := first; i < last; i++ of the container marshal functions;
\* the order of the container is built (Touch) before
marshalChildren(g, c, i, last) ==
    IF i >= last THEN [out |-> <<>>, panic |-> FALSE]
    ELSE IF i < 0 \/ i >= Len(g.heap[c].inOrder) THEN [out |-> <<>>, panic |-> TRUE]
    ELSE LET m == marshalMetadata(g, item(g, c, i))
             r == marshalChildren(g, c, i + 1, last)
         IN  IF m.panic THEN [out |-> <<>>, panic |-> TRUE]
             ELSE [out |-> m.out \o r.out, panic |-> r.panic]

\* obj.marshal(mode, first, last)
marshal(g, o, mode, first, last) ==
    IF g.heap[o].mf \in {"container", "genre", "artist", "albumartist", "albumRef"} /\ mode = ModeChildren
    THEN marshalChildren(g, o, first, last)
    ELSE marshalMetadata(g, o)

\* the empty result string of a failed Browse
NoResult == [didl |-> FALSE, elems |-> <<>>]

\* Browse without the check that an object asked for its children is a
\* container: the type assertion obj.(container) panics for an item
BrowseAnyObject(g, id, mode, start, wanted, tb) ==
    IF id \notin g.objects
    THEN [g |-> g, res |-> [outcome |-> "error", err |-> "not found", result |-> NoResult,
                            returned |-> U32(0), total |-> U32(0)]]
    ELSE LET ix == IF isContainer(g.heap[id]) THEN indices(start, wanted, numChildren(g, id))
                   ELSE [first |-> 0, last |-> 0]
             loops == g.heap[id].mf \in {"container", "genre", "artist", "albumartist", "albumRef"}
                      /\ mode = ModeChildren /\ ix.first < ix.last
             g1 == IF loops THEN Touch(g, id, tb) ELSE g
             m == IF g1.halt # "" THEN [out |-> <<>>, panic |-> TRUE]
                  ELSE marshal(g1, id, mode, ix.first, ix.last)
         IN  IF m.panic \/ (mode = ModeChildren /\ ~isContainer(g.heap[id]))
             THEN [g |-> [g1 EXCEPT !.halt = g.halt],
                   res |-> [outcome |-> "panic", err |-> "", result |-> NoResult, returned |-> U32(0), total |-> U32(0)]]
             ELSE [g |-> g1,
                   res |-> [outcome |-> "ok", err |-> "", result |-> [didl |-> TRUE, elems |-> m.out],
                            returned |-> IF mode = ModeMetadata THEN U32(1) ELSE U32(ix.last - ix.first),
                            total |-> IF mode = ModeMetadata THEN U32(1) ELSE U32(numChildren(g, id))]]

\* Content.Browse: the graph after the call (the order of the browsed
\* container may have been built) and the result; a panic of the marshalling
\* ends the request, not the process
Browse(g, id, mode, start, wanted, tb) ==
    IF id \notin g.objects
    THEN [g |-> g, res |-> [outcome |-> "error", err |-> "not found", result |-> NoResult,
                            returned |-> U32(0), total |-> U32(0)]]
    ELSE IF mode = ModeChildren /\ ~isContainer(g.heap[id])
    THEN [g |-> g, res |-> [outcome |-> "error", err |-> "no container", result |-> NoResult,
                            returned |-> U32(0), total |-> U32(0)]]
    ELSE LET ix == IF isContainer(g.heap[id]) THEN indices(start, wanted, numChildren(g, id))
                   ELSE [first |-> 0, last |-> 0]
             loops == g.heap[id].mf \in {"container", "genre", "artist", "albumartist", "albumRef"}
                      /\ mode = ModeChildren /\ ix.first < ix.last
             g1 == IF loops THEN Touch(g, id, tb) ELSE g
             m == IF g1.halt # "" THEN [out |-> <<>>, panic |-> TRUE]
                  ELSE marshal(g1, id, mode, ix.first, ix.last)
         IN  IF m.panic
             THEN [g |-> [g1 EXCEPT !.halt = g.halt],
                   res |-> [outcome |-> "panic", err |-> "", result |-> NoResult, returned |-> U32(0), total |-> U32(0)]]
             ELSE [g |-> g1,
                   res |-> [outcome |-> "ok", err |-> "", result |-> [didl |-> TRUE, elems |-> m.out],
                            returned |-> IF mode = ModeMetadata THEN U32(1) ELSE U32(ix.last - ix.first),
                            total |-> IF mode = ModeMetadata THEN U32(1) ELSE U32(numChildren(g, id))]]

\* ---------------------------------------------------------------------------
\* State
\* ---------------------------------------------------------------------------
VARIABLES
    cnt,        \* the Content object (graph), see New
    disk,       \* the music directory: path -> [exists, lc]
    diskOps,    \* number of changes made to the music directory
    chgs,       \* notifier: the events in the channel chgs (capacity 1)
    changes,    \* notifier.changes, the mutex-guarded event buffer
    updMode,    \* content.update_mode: "scan" or "notify"
    ctxDone,    \* the root context is cancelled
    srv,        \* the server's main control loop
    upd,        \* the updater's run function
    tick,       \* the tick goroutines of the updater
    sema,       \* number of elements in the semaphore channel (capacity 1)
    sv,         \* the UPnP state variables and the SSDP connection
    bres,       \* the result of the last Browse request
    browses,    \* number of Browse requests served
    cycles,     \* number of update cycles run in the sequential specification
    hist,       \* history of the current update cycle and of the loop
    chk         \* the configuration being checked at start and the outcome

vars == <<cnt, disk, diskOps, chgs, changes, updMode, ctxDone, srv, upd, tick, sema, sv, bres, browses, cycles, hist, chk>>


TieBreaks == {1, -1}

Goroutines == 1..MaxTicks

\* a uint32 value of the state variable SystemUpdateID as <<high, low>>
U32Add(a, b) ==
    LET lo == a[2] + b[2]
        hi == a[1] + b[1] + (lo \div 65536)
    IN  <<hi % 65536, lo % 65536>>

U32Less(a, b) == a[1] < b[1] \/ (a[1] = b[1] /\ a[2] < b[2])

\* the values of SystemUpdateID found in the status file at start: 0 and 2^32 - 3
InitialSystemUpdateIDs == {<<0, 0>>, <<65535, 65533>>}

\* the music directory at start
InitialDisks ==
    {[p \in Paths |-> [exists |-> p \in S, lc |-> IF p \in S THEN 1 ELSE 0]] : S \in {{}, {pA}, {pA, pB}}}

idleTick == [pc |-> "idle", fiDel |-> <<>>, fiAdd |-> <<>>, pos |-> 0, queued |-> FALSE]

noBrowse == [outcome |-> "none", err |-> "", result |-> NoResult, returned |-> U32(0), total |-> U32(0),
             id |-> Nil, mode |-> "", start |-> 0, wanted |-> 0, inMap |-> FALSE, isCtr |-> FALSE,
             n |-> 0, order |-> <<>>, slice |-> <<>>]

noHist == [events |-> <<>>, delta |-> <<>>, old |-> <<0, 0>>, count |-> <<0, 0>>, resets |-> 0, steps |-> <<>>,
           token |-> 0, errSeen |-> FALSE, applied |-> <<>>, appended |-> <<>>, handed |-> <<>>]

\* no configuration and no pair of file lists is being checked
noChk == [op |-> "none", hier |-> [Name |-> <<>>, Levels |-> <<>>], n |-> 0, pl |-> FALSE, fo |-> FALSE,
          done |-> FALSE, err |-> "", order |-> <<>>, fiCnt |-> <<>>, fiDir |-> <<>>, fiDel |-> <<>>, fiAdd |-> <<>>]

\* the state after content.New and upnp.New (InitStateVariables), the status
\* file holding one of the values ids for SystemUpdateID
InitFor(ids, cfgs, disks) ==
    /\ cnt \in {NewContent(c) : c \in cfgs}
    /\ disk \in disks
    /\ diskOps = 0
    /\ chgs = <<>>
    /\ changes = <<>>
    /\ updMode \in {"scan", "notify"}
    /\ ctxDone = FALSE
    /\ srv = [pc |-> "init", cur |-> 0, count |-> <<0, 0>>]
    /\ upd = "off"
    /\ tick = [g \in Goroutines |-> idleTick]
    /\ sema = 0
    /\ sv \in {[SystemUpdateID |-> v, ContainerUpdateIDs |-> <<>>, ServiceResetToken |-> 1, connected |-> FALSE,
                 err |-> FALSE] : v \in ids}
    /\ bres = noBrowse
    /\ browses = 0
    /\ cycles = 0
    /\ hist = noHist
    /\ chk = noChk

InitWith(ids) == InitFor(ids, {DefaultCfg}, InitialDisks)

Init == InitWith(InitialSystemUpdateIDs)

\* the same without a status file: SystemUpdateID starts at 0
InitGraph == InitWith({<<0, 0>>})

Running == cnt.halt = ""

\* ---------------------------------------------------------------------------
\* The music directory changes (environment)
\* ---------------------------------------------------------------------------
\* the watcher's non-blocking send of an event into chgs: dropped if chgs is full
watch(path) == IF updMode = "notify" /\ upd \in {"loop", "wait"} /\ Len(chgs) < 1 THEN Append(chgs, path) ELSE chgs

\* a file is created or rewritten
DiskWrite(path) ==
    /\ Running
    /\ diskOps < MaxDiskOps
    /\ diskOps' = diskOps + 1
    /\ disk' = [disk EXCEPT ![path] = [exists |-> TRUE, lc |-> 1 + diskOps + 1]]
    /\ chgs' = watch(path)
    /\ UNCHANGED <<cnt, changes, updMode, ctxDone, srv, upd, tick, sema, sv, bres, browses, cycles, hist, chk>>

\* a file is removed
DiskRemove(path) ==
    /\ Running
    /\ diskOps < MaxDiskOps
    /\ disk[path].exists
    /\ diskOps' = diskOps + 1
    /\ disk' = [disk EXCEPT ![path] = [exists |-> FALSE, lc |-> 0]]
    /\ chgs' = watch(path)
    /\ UNCHANGED <<cnt, changes, updMode, ctxDone, srv, upd, tick, sema, sv, bres, browses, cycles, hist, chk>>

\* ---------------------------------------------------------------------------
\* Start of the server (server.Run up to the main control loop)
\* ---------------------------------------------------------------------------
\* notifier.processChanges up to diff: the changed paths, each once, give
\* fiDir (the paths that exist) and fiCnt (the tracks of the content), both
\* sorted by path
processChanges(g, chs, dsk) ==
    LET ps == {chs[i] : i \in 1..Len(chs)}
        dir == SortPaths({p \in ps : dsk[p].exists})
        fiDir == [i \in 1..Len(dir) |-> [path |-> dir[i], lc |-> 0]]
        c == SortPaths({p \in ps : Len(filesByPaths(g, <<p>>, 1)) > 0})
        fiCnt == [i \in 1..Len(c) |-> filesByPaths(g, <<c[i]>>, 1)[1]]
    IN  diff(fiCnt, fiDir, dsk)

\* Content.InitialUpdate, then go cnt.Run
InitialUpdate ==
    /\ Running
    /\ srv.pc = "init"
    /\ \E tb \in TieBreaks, ord \in TieBreaks :
          LET fs == fullScan(cnt, disk, ord)
          IN  cnt' = update(cnt, fs.del, fs.add, disk, tb)
    /\ srv' = [srv EXCEPT !.pc = "connect"]
    /\ upd' = "start"
    /\ UNCHANGED <<disk, diskOps, chgs, changes, updMode, ctxDone, tick, sema, sv, bres, browses, cycles, hist, chk>>

\* the head of scanner.run and notifier.run: the ticker is created; the
\* notifier installs its watcher first and reports a failure on errs
UpdStart(ok) ==
    /\ Running
    /\ upd = "start"
    /\ (~ok) => updMode = "notify"
    /\ upd' = IF ok THEN "loop" ELSE "errs"
    /\ UNCHANGED <<cnt, disk, diskOps, chgs, changes, updMode, ctxDone, srv, tick, sema, sv, bres, browses, cycles, hist, chk>>

\* notifier.run, case chg := <-chgs
UpdRecvChg ==
    /\ Running
    /\ upd = "loop"
    /\ Len(chgs) > 0
    /\ changes' = Append(changes, Head(chgs))
    /\ chgs' = Tail(chgs)
    /\ hist' = [hist EXCEPT !.appended = Append(@, Head(chgs))]
    /\ UNCHANGED <<cnt, disk, diskOps, updMode, ctxDone, srv, upd, tick, sema, sv, bres, browses, cycles, chk>>

\* ---------------------------------------------------------------------------
\* Sequential view: whole update cycles and Browse requests
\* ---------------------------------------------------------------------------
\* a whole cycle of the scanner: fullScan, then Content.update
GraphScan ==
    /\ Running
    /\ updMode = "scan"
    /\ upd = "loop"
    /\ cycles < MaxCycles
    /\ cycles' = cycles + 1
    /\ \E tb \in TieBreaks, ord \in TieBreaks :
          LET fs == fullScan(cnt, disk, ord)
          IN  cnt' = update(cnt, fs.del, fs.add, disk, tb)
    /\ UNCHANGED <<disk, diskOps, chgs, changes, updMode, ctxDone, srv, upd, tick, sema, sv, bres, browses, hist, chk>>

\* a whole cycle of the notifier: processChanges with a non-empty buffer
GraphNotify ==
    /\ Running
    /\ updMode = "notify"
    /\ upd = "loop"
    /\ cycles < MaxCycles
    /\ Len(changes) > 0
    /\ cycles' = cycles + 1
    /\ changes' = <<>>
    /\ hist' = [hist EXCEPT !.handed = @ \o changes]
    /\ \E tb \in TieBreaks :
          LET fs == processChanges(cnt, changes, disk)
          IN  cnt' = update(cnt, fs.del, fs.add, disk, tb)
    /\ UNCHANGED <<disk, diskOps, chgs, updMode, ctxDone, srv, upd, tick, sema, sv, bres, browses, chk>>

\* the StartingIndex and RequestedCount values a control point sends
Starts == {0, 1, 2}
Wanteds == {0, 1, 2}

\* the object ids a control point may ask for: every id handed out so far and one more
BrowseIDs == 0..(cnt.newID + 1)

\* the children of a container in sorted order, when the object is one
orderOf(g, id, tb) ==
    IF id \in g.objects /\ isContainer(g.heap[id]) THEN Touch(g, id, tb).heap[id].inOrder ELSE <<>>

\* the DIDL-Lite elements of the objects ids, one after the other
RECURSIVE elemsOf(_, _)
elemsOf(g, ids) ==
    IF Len(ids) = 0 THEN <<>> ELSE marshalMetadata(g, ids[1]).out \o elemsOf(g, Tail(ids))

\* Server.browse -> Content.Browse; the request and the container's state at
\* the time of the call are kept with the result
DoBrowse(id, mode, start, wanted) ==
    /\ Running
    /\ srv.pc # "init"
    /\ browses < MaxBrowses
    /\ browses' = browses + 1
    /\ \E tb \in TieBreaks :
          LET b == Browse(cnt, id, mode, start, wanted, tb)
              inMap == id \in cnt.objects
              isCtr == inMap /\ isContainer(cnt.heap[id])
              n == IF isCtr THEN numChildren(cnt, id) ELSE 0
              order == orderOf(cnt, id, tb)
              last == IF wanted = 0 THEN n ELSE Min(start + wanted, n)
              slice == IF Len(order) = n THEN SubSeq(order, start + 1, last) ELSE <<>>
          IN  /\ cnt' = b.g
              /\ bres' = Merge(b.res,
                               [id |-> id, mode |-> mode, start |-> start, wanted |-> wanted,
                                inMap |-> inMap, isCtr |-> isCtr, n |-> n, order |-> order,
                                slice |-> elemsOf(Touch(cnt, 0, tb), slice)])
    /\ UNCHANGED <<disk, diskOps, chgs, changes, updMode, ctxDone, srv, upd, tick, sema, sv, cycles, hist, chk>>

NextGraph ==
    \/ InitialUpdate
    \/ \E ok \in BOOLEAN : UpdStart(ok)
    \/ UpdRecvChg
    \/ \E p \in Paths : DiskWrite(p)
    \/ \E p \in Paths : DiskRemove(p)
    \/ GraphScan
    \/ GraphNotify
    \/ \E id \in BrowseIDs : DoBrowse(id, ModeMetadata, 0, 0)
    \/ \E id \in BrowseIDs, start \in Starts, wanted \in Wanteds : DoBrowse(id, ModeChildren, start, wanted)

SpecGraph == InitGraph /\ [][NextGraph]_vars

\* ---------------------------------------------------------------------------
\* The content of a larger library: folders, two music directories, a file
\* without album tag, two files with the same title; each update cycle is one
\* step
\* ---------------------------------------------------------------------------
\* the music directories at start
LibDisks ==
    {[p \in LibPaths |-> [exists |-> p \in S, lc |-> IF p \in S THEN 1 ELSE 0]] :
         S \in {{}, {pE}, {pA, pE}, {pD, pF}}}

InitLib == InitFor({<<0, 0>>}, LibCfgs, LibDisks)

NextLib ==
    \/ InitialUpdate
    \/ \E ok \in BOOLEAN : UpdStart(ok)
    \/ UpdRecvChg
    \/ \E p \in LibPaths : DiskWrite(p)
    \/ \E p \in LibPaths : DiskRemove(p)
    \/ GraphScan
    \/ GraphNotify

SpecLib == InitLib /\ [][NextLib]_vars

\* ---------------------------------------------------------------------------
\* A library of albums in a hierarchy Album -> Track with sorted levels: whole
\* update cycles and Browse requests
\* ---------------------------------------------------------------------------
\* the music directories at start
AlbumDisks ==
    {[p \in AlbumPaths |-> [exists |-> p \in S, lc |-> IF p \in S THEN 1 ELSE 0]] :
         S \in {{pA, pE, pF}, {pA, pG}, {pE, pF, pG}}}

InitAlbums == InitFor({<<0, 0>>}, AlbumCfgs, AlbumDisks)

NextAlbums ==
    \/ InitialUpdate
    \/ \E ok \in BOOLEAN : UpdStart(ok)
    \/ UpdRecvChg
    \/ \E p \in AlbumPaths : DiskWrite(p)
    \/ \E p \in AlbumPaths : DiskRemove(p)
    \/ GraphScan
    \/ GraphNotify
    \/ \E id \in BrowseIDs : DoBrowse(id, ModeChildren, 0, 0)

SpecAlbums == InitAlbums /\ [][NextAlbums]_vars

\* ---------------------------------------------------------------------------
\* Playlists (playlist.go): newPlaylist, trackFromPlaylistItem, addPlaylist and
\* delPlaylist as procUpdates calls them for a fileInfo of kind infoPlaylist,
\* beside addTrack and delTrack; each update cycle is one step
\* ---------------------------------------------------------------------------
pP == <<47, 109, 47, 48>>            \* "/m/0": a playlist listing /m/a and /m/b
pQ == <<47, 109, 47, 113>>           \* "/m/q": a playlist whose only item lies outside the music directory
PlaylistFiles == {pP, pQ}
PlaylistPaths == {pA, pB, pP, pQ}

\* the items m3u.Parse delivers for the playlist files
PlaylistItems(path) == IF path = pP THEN <<pA, pB>> ELSE IF path = pQ THEN <<pF>> ELSE <<>>

\* cfg.Cnt with show_playlists
PlaylistCfg == [Hiers |-> <<TrackHier>>, MusicDirs |-> <<sM>>, ShowFolders |-> FALSE, ShowPlaylists |-> TRUE]

\* Content.makeTree, the playlist hierarchy (named "P" here), which follows
\* the configured hierarchies
makePlaylistHier(g) ==
    IF ~g.cfg.ShowPlaylists THEN g
    ELSE LET id == g.newID + 1
             hier == [newCtr(id, <<80>>) EXCEPT !.sf = <<Pad(Len(g.cfg.Hiers), 2)>>]
             g1 == ctrAddChild([g EXCEPT !.newID = id, !.heap = Put(@, id, hier)], 0, id)
         IN  [g1 EXCEPT !.objects = @ \cup {id}]

\* content.New(cfg) for a configuration with show_playlists and without
\* show_folders: the graph has the playlist map
NewPlaylistContent(cfg) == makePlaylistHier(Merge(NewContent(cfg), [playlists |-> <<>>]))

\* trackFromPlaylistItem returns a nil error for the local path
itemValid(g, path, dsk) ==
    /\ MusicDir(g.cfg, path) # <<>>
    /\ path \in DOMAIN dsk
    /\ dsk[path].exists

\* trackFromPlaylistItem for a local path that is valid: the track of
\* me.tracks, or a new one
trackFromPlaylistItem(g, path, dsk) ==
    IF path \in DOMAIN g.tracks THEN g
    ELSE newTrack(g, path, dsk[path].lc, path \notin Unreadable)

\* tRef.sf = []string{fmt.Sprintf("%06d", i)}; pl.addChild(tRef)
playlistAddRef(g, pl, i) == ctrAddChild([g EXCEPT !.heap[g.newID].sf = <<Pad(i, 6)>>], pl, g.newID)

\* tRef := t.newTrackRef([]config.SortField{}) for the track of path
playlistRef(g, pl, i, path) ==
    IF g.halt # "" THEN g ELSE playlistAddRef(newTrackRef(g, g.tracks[path], <<>>), pl, i)

RECURSIVE playlistLoop(_, _, _, _, _)
\* newPlaylist, the loop over the items from item i on
playlistLoop(g, pl, items, i, dsk) ==
    IF g.halt # "" \/ i >= Len(items) THEN g
    ELSE IF ~itemValid(g, items[i + 1], dsk) THEN playlistLoop(g, pl, items, i + 1, dsk)
    ELSE playlistLoop(playlistRef(trackFromPlaylistItem(g, items[i + 1], dsk), pl, i, items[i + 1]),
                      pl, items, i + 1, dsk)

\* newPlaylist up to os.Open: the container is created and registered
playlistCtr(g, path, dsk) ==
    [g EXCEPT !.newID = @ + 1,
              !.heap = Put(@, g.newID + 1,
                           Merge(newCtr(g.newID + 1, Base(path)), [mf |-> "playlist", lastChange |-> dsk[path].lc])),
              !.playlists = Put(@, path, g.newID + 1),
              !.objects = @ \cup {g.newID + 1}]

\* newPlaylist; addPlaylist ends the process in log.Fatal if it returns an error
newPlaylist(g, path, dsk) ==
    IF ~dsk[path].exists THEN [playlistCtr(g, path, dsk) EXCEPT !.halt = "fatal"]
    ELSE playlistLoop(playlistCtr(g, path, dsk), g.newID + 1, PlaylistItems(path), 0, dsk)

\* me.root.childByIndex(len(me.cfg.Cnt.Hiers)).(container).addChild(pl), the
\* order of the root being built
playlistAttach(g, path) ==
    IF g.halt # "" THEN g ELSE ctrAddChild(g, item(g, 0, Len(g.cfg.Hiers)), g.playlists[path])

\* addPlaylist, after newPlaylist
playlistAdded(g, path, tb) ==
    IF g.halt # "" \/ numChildren(g, g.playlists[path]) = 0 THEN g
    ELSE playlistAttach(Touch(g, 0, tb), path)

\* Content.addPlaylist
addPlaylist(g, path, dsk, tb) == playlistAdded(newPlaylist(g, path, dsk), path, tb)

\* delPlaylist, the loop over the items and pl.delChildren(): the track
\* references leave the object map and the reference maps of their tracks
playlistClear(g, pl) ==
    [g EXCEPT !.objects = @ \ g.heap[pl].byID,
              !.heap = [x \in DOMAIN @ |->
                           IF x = pl THEN Merge(@[x], [byID |-> {}, byKey |-> <<>>, inOrder |-> <<>>])
                           ELSE IF @[x].kind = "track" THEN Merge(@[x], [trefs |-> @[x].trefs \ g.heap[pl].byID])
                           ELSE @[x]]]

\* delPlaylist from pl.parent().delChild(pl) on; a playlist without parent
\* makes the call panic
playlistDetach(g, pl, tb) ==
    IF g.heap[pl].p = Nil THEN [g EXCEPT !.halt = "panic"]
    ELSE playlistClear(Touch(ctrDelChild(g, g.heap[pl].p, pl), pl, tb), pl)

\* Content.delPlaylist
delPlaylist(g, path, tb) ==
    IF path \notin DOMAIN g.playlists THEN g
    ELSE playlistDetach([g EXCEPT !.count = @ + 1, !.playlists = Del(@, path), !.objects = @ \ {g.playlists[path]}],
                        g.playlists[path], tb)

\* one iteration of the loop of procUpdates for a configuration with
\* show_playlists: case infoPlaylist and case infoTrack
procFile(g, path, isAdd, dsk, tb) ==
    IF g.halt # "" THEN g
    ELSE IF path \in PlaylistFiles
    THEN (IF isAdd THEN addPlaylist(g, path, dsk, tb) ELSE delPlaylist(g, path, tb))
    ELSE (IF isAdd THEN addTrack(g, path, dsk[path].lc, dsk[path].exists /\ path \notin Unreadable, tb)
          ELSE delTrack(g, path, tb))

RECURSIVE procFiles(_, _, _, _, _)
\* procUpdates over the files paths, the cover workers joined at the end
procFiles(g, paths, isAdd, dsk, tb) ==
    IF Len(paths) = 0 THEN procUpdates(g, <<>>, isAdd, dsk, tb)
    ELSE procFiles(procFile(g, paths[1], isAdd, dsk, tb), Tail(paths), isAdd, dsk, tb)

\* Content.update with the files paths to add (isAdd) or to delete, the other
\* list being empty
updateFiles(g, paths, isAdd, dsk, tb) == updateEnd(procFiles(updateBegin(g), paths, isAdd, dsk, tb))

\* the music directory at start
PlaylistDisks ==
    {[p \in PlaylistPaths |-> [exists |-> p \in S, lc |-> IF p \in S THEN 1 ELSE 0]] :
         S \in {{pA, pP}, {pA, pB, pP}, {pA, pQ}, {pA, pB, pP, pQ}}}

InitPlaylists ==
    /\ cnt = NewPlaylistContent(PlaylistCfg)
    /\ disk \in PlaylistDisks
    /\ diskOps = 0
    /\ chgs = <<>>
    /\ changes = <<>>
    /\ updMode \in {"scan", "notify"}
    /\ ctxDone = FALSE
    /\ srv = [pc |-> "init", cur |-> 0, count |-> <<0, 0>>]
    /\ upd = "off"
    /\ tick = [g \in Goroutines |-> idleTick]
    /\ sema = 0
    /\ sv = [SystemUpdateID |-> <<0, 0>>, ContainerUpdateIDs |-> <<>>, ServiceResetToken |-> 1,
             connected |-> FALSE, err |-> FALSE]
    /\ bres = noBrowse
    /\ browses = 0
    /\ cycles = 0
    /\ hist = noHist
    /\ chk = noChk

\* Content.InitialUpdate: every file of the music directory is added, in the
\* order of the paths
PlaylistInitialUpdate ==
    /\ Running
    /\ srv.pc = "init"
    /\ \E tb \in TieBreaks :
          cnt' = updateFiles(cnt, SortPaths({p \in PlaylistPaths : disk[p].exists}), TRUE, disk, tb)
    /\ srv' = [srv EXCEPT !.pc = "connect"]
    /\ upd' = "start"
    /\ UNCHANGED <<disk, diskOps, chgs, changes, updMode, ctxDone, tick, sema, sv, bres, browses, cycles, hist, chk>>

\* an update cycle that deletes the file path from the content
PlaylistCycleDel(path) ==
    /\ Running
    /\ srv.pc # "init"
    /\ cycles < MaxPlaylistOps
    /\ path \in DOMAIN cnt.tracks \/ path \in DOMAIN cnt.playlists
    /\ cycles' = cycles + 1
    /\ \E tb \in TieBreaks : cnt' = updateFiles(cnt, <<path>>, FALSE, disk, tb)
    /\ UNCHANGED <<disk, diskOps, chgs, changes, updMode, ctxDone, srv, upd, tick, sema, sv, bres, browses, hist, chk>>

\* an update cycle that adds the file path to the content
PlaylistCycleAdd(path) ==
    /\ Running
    /\ srv.pc # "init"
    /\ cycles < MaxPlaylistOps
    /\ disk[path].exists
    /\ path \notin DOMAIN cnt.tracks /\ path \notin DOMAIN cnt.playlists
    /\ cycles' = cycles + 1
    /\ \E tb \in TieBreaks : cnt' = updateFiles(cnt, <<path>>, TRUE, disk, tb)
    /\ UNCHANGED <<disk, diskOps, chgs, changes, updMode, ctxDone, srv, upd, tick, sema, sv, bres, browses, hist, chk>>

NextPlaylists ==
    \/ PlaylistInitialUpdate
    \/ \E p \in PlaylistPaths : PlaylistCycleDel(p)
    \/ \E p \in PlaylistPaths : PlaylistCycleAdd(p)

SpecPlaylists == InitPlaylists /\ [][NextPlaylists]_vars

\* ---------------------------------------------------------------------------
\* The updater (scanner.run, notifier.run) and its tick goroutines
\* ---------------------------------------------------------------------------
\* the positions at which a tick goroutine holds the semaphore
HoldPcs == {"scan", "notify", "waitProceed", "begin", "del", "add", "cleanup", "sendCount", "release"}

\* the positions inside Content.update
ApplyPcs == {"begin", "del", "add", "cleanup"}

\* case <-ticker.C: a goroutine is started; it finds the semaphore free or taken
Tick ==
    /\ Running
    /\ upd = "loop"
    /\ \E g \in Goroutines :
          /\ tick[g].pc = "idle"
          /\ \A h \in Goroutines : h < g => tick[h].pc # "idle"
          /\ tick' = [tick EXCEPT ![g].pc = "acquire", ![g].queued = (sema = 1)]
    /\ UNCHANGED <<cnt, disk, diskOps, chgs, changes, updMode, ctxDone, srv, upd, sema, sv, bres, browses, cycles, hist, chk>>

\* TickAcquire with a semaphore of two slots
TickAcquireTwoSlots(g) ==
    /\ Running
    /\ tick[g].pc = "acquire"
    /\ upd # "done"
    /\ Cardinality({h \in Goroutines : tick[h].pc \in HoldPcs}) < 2
    /\ sema' = 1
    /\ tick' = [tick EXCEPT ![g].pc = "scan"]
    /\ UNCHANGED <<cnt, disk, diskOps, chgs, changes, updMode, ctxDone, srv, upd, sv, bres, browses, cycles, hist, chk>>

\* TickAcquire with a send that does not block when the semaphore is taken
TickAcquireNoWait(g) ==
    /\ Running
    /\ tick[g].pc = "acquire"
    /\ upd # "done"
    /\ sema' = 1
    /\ tick' = [tick EXCEPT ![g].pc = "scan"]
    /\ UNCHANGED <<cnt, disk, diskOps, chgs, changes, updMode, ctxDone, srv, upd, sv, bres, browses, cycles, hist, chk>>

\* sema <- struct{}{}
TickAcquire(g) ==
    /\ Running
    /\ tick[g].pc = "acquire"
    /\ upd # "done"
    /\ sema = 0
    /\ sema' = 1
    /\ tick' = [tick EXCEPT ![g].pc = "scan"]
    /\ UNCHANGED <<cnt, disk, diskOps, chgs, changes, updMode, ctxDone, srv, upd, sv, bres, browses, cycles, hist, chk>>

\* TickScan with a processChanges that leaves the events in the buffer
TickScanKeepsChanges(g) ==
    /\ Running
    /\ tick[g].pc = "scan"
    /\ IF updMode = "scan"
       THEN \E ord \in TieBreaks :
                LET fs == fullScan(cnt, disk, ord)
                IN  /\ tick' = [tick EXCEPT ![g].pc = "notify", ![g].fiDel = fs.del, ![g].fiAdd = fs.add]
                    /\ changes' = changes
                    /\ hist' = hist
       ELSE IF Len(changes) = 0
       THEN /\ tick' = [tick EXCEPT ![g].pc = "release"]
            /\ changes' = changes
            /\ hist' = hist
       ELSE LET fs == processChanges(cnt, changes, disk)
            IN  /\ tick' = [tick EXCEPT ![g].pc = "notify", ![g].fiDel = fs.del, ![g].fiAdd = fs.add]
                /\ changes' = changes
                /\ hist' = [hist EXCEPT !.handed = @ \o changes]
    /\ UNCHANGED <<cnt, disk, diskOps, chgs, updMode, ctxDone, srv, upd, sema, sv, bres, browses, cycles, chk>>

\* fullScan (scanner) or the head of processChanges (notifier), which returns
\* without a notification when no change is buffered; the events handed to
\* the run are copied and the buffer is emptied under the mutex
TickScan(g) ==
    /\ Running
    /\ tick[g].pc = "scan"
    /\ IF updMode = "scan"
       THEN \E ord \in TieBreaks :
                LET fs == fullScan(cnt, disk, ord)
                IN  /\ tick' = [tick EXCEPT ![g].pc = "notify", ![g].fiDel = fs.del, ![g].fiAdd = fs.add]
                    /\ changes' = changes
                    /\ hist' = hist
       ELSE IF Len(changes) = 0
       THEN /\ tick' = [tick EXCEPT ![g].pc = "release"]
            /\ changes' = changes
            /\ hist' = hist
       ELSE LET fs == processChanges(cnt, changes, disk)
            IN  /\ tick' = [tick EXCEPT ![g].pc = "notify", ![g].fiDel = fs.del, ![g].fiAdd = fs.add]
                /\ changes' = <<>>
                /\ hist' = [hist EXCEPT !.handed = @ \o changes]
    /\ UNCHANGED <<cnt, disk, diskOps, chgs, updMode, ctxDone, srv, upd, sema, sv, bres, browses, cycles, chk>>

\* me.updNotif <- UpdateNotification{...}, received by the server loop's select
TickNotify(g) ==
    /\ Running
    /\ tick[g].pc = "notify"
    /\ upd # "done"
    /\ srv.pc = "select"
    /\ tick' = [tick EXCEPT ![g].pc = "waitProceed"]
    /\ srv' = [srv EXCEPT !.pc = "proceed", !.cur = g]
    /\ hist' = [hist EXCEPT !.events = <<"notify">>, !.resets = 0, !.steps = <<>>]
    /\ UNCHANGED <<cnt, disk, diskOps, chgs, changes, updMode, ctxDone, upd, sema, sv, bres, browses, cycles, chk>>

\* TickProceed without the receive from me.upd
TickProceedEarly(g) ==
    /\ Running
    /\ tick[g].pc = "waitProceed"
    /\ tick' = [tick EXCEPT ![g].pc = "begin"]
    /\ UNCHANGED <<cnt, disk, diskOps, chgs, changes, updMode, ctxDone, srv, upd, sema, sv, bres, browses, cycles, hist, chk>>

\* <-me.upd: the server's update.Update() is received, or the channel is closed
TickProceed(g) ==
    /\ Running
    /\ tick[g].pc = "waitProceed"
    /\ \/ /\ srv.pc = "proceed"
          /\ srv' = [srv EXCEPT !.pc = "recv"]
          /\ hist' = [hist EXCEPT !.events = Append(@, "proceed")]
       \/ /\ srv.pc # "proceed"
          /\ upd = "done"
          /\ UNCHANGED <<srv, hist>>
    /\ tick' = [tick EXCEPT ![g].pc = "begin"]
    /\ UNCHANGED <<cnt, disk, diskOps, chgs, changes, updMode, ctxDone, upd, sema, sv, bres, browses, cycles, chk>>

\* TickBegin that goes on with the adds at once
TickBeginSkipsDeletes(g) ==
    /\ Running
    /\ tick[g].pc = "begin"
    /\ cnt' = updateBegin(cnt)
    /\ tick' = [tick EXCEPT ![g].pc = "add", ![g].pos = 0]
    /\ hist' = [hist EXCEPT !.events = Append(@, "apply"), !.applied = <<>>]
    /\ UNCHANGED <<disk, diskOps, chgs, changes, updMode, ctxDone, srv, upd, sema, sv, bres, browses, cycles, chk>>

\* Content.update, its head
TickBegin(g) ==
    /\ Running
    /\ tick[g].pc = "begin"
    /\ cnt' = updateBegin(cnt)
    /\ tick' = [tick EXCEPT ![g].pc = "del", ![g].pos = 0]
    /\ hist' = [hist EXCEPT !.events = Append(@, "apply"), !.applied = <<>>]
    /\ UNCHANGED <<disk, diskOps, chgs, changes, updMode, ctxDone, srv, upd, sema, sv, bres, browses, cycles, chk>>

\* procUpdates, one round of its loop: the next file, or the break on ctx.Done()
TickFile(g) ==
    /\ Running
    /\ tick[g].pc \in {"del", "add"}
    /\ LET fis == IF tick[g].pc = "del" THEN tick[g].fiDel ELSE tick[g].fiAdd
       IN  /\ tick[g].pos < Len(fis)
           /\ \/ \E tb \in TieBreaks :
                    /\ cnt' = procUpdate(cnt, fis[tick[g].pos + 1], tick[g].pc = "add", disk, tb)
                    /\ tick' = [tick EXCEPT ![g].pos = @ + 1]
                    /\ hist' = [hist EXCEPT !.applied = Append(@, [add |-> tick[g].pc = "add",
                                                                   path |-> fis[tick[g].pos + 1].path])]
              \/ /\ ctxDone
                 /\ cnt' = cnt
                 /\ tick' = [tick EXCEPT ![g].pos = Len(fis)]
                 /\ hist' = hist
    /\ UNCHANGED <<disk, diskOps, chgs, changes, updMode, ctxDone, srv, upd, sema, sv, bres, browses, cycles, chk>>

\* TickJoin without wg.Wait()
TickJoinNoWait(g) ==
    /\ Running
    /\ tick[g].pc \in {"del", "add"}
    /\ tick[g].pos = Len(IF tick[g].pc = "del" THEN tick[g].fiDel ELSE tick[g].fiAdd)
    /\ tick' = [tick EXCEPT ![g].pc = IF @ = "del" THEN "add" ELSE "cleanup", ![g].pos = 0]
    /\ UNCHANGED <<cnt, disk, diskOps, chgs, changes, updMode, ctxDone, srv, upd, sema, sv, bres, browses, cycles, hist, chk>>

\* procUpdates, its end: wg.Wait() for the cover workers
TickJoin(g) ==
    /\ Running
    /\ tick[g].pc \in {"del", "add"}
    /\ tick[g].pos = Len(IF tick[g].pc = "del" THEN tick[g].fiDel ELSE tick[g].fiAdd)
    /\ cnt.picJobs = {}
    /\ tick' = [tick EXCEPT ![g].pc = IF @ = "del" THEN "add" ELSE "cleanup", ![g].pos = 0]
    /\ UNCHANGED <<cnt, disk, diskOps, chgs, changes, updMode, ctxDone, srv, upd, sema, sv, bres, browses, cycles, hist, chk>>

\* one cover worker started by addTrack: pictures.add
PicWorker(t) ==
    /\ Running
    /\ t \in cnt.picJobs
    /\ cnt' = picturesAdd(cnt, t)
    /\ UNCHANGED <<disk, diskOps, chgs, changes, updMode, ctxDone, srv, upd, tick, sema, sv, bres, browses, cycles, hist, chk>>

\* Content.update, its tail: cleanup; update returns a nil error (every
\* per-file error has ended the process in log.Fatal before)
TickCleanup(g) ==
    /\ Running
    /\ tick[g].pc = "cleanup"
    /\ cnt' = cleanup(cnt)
    /\ tick' = [tick EXCEPT ![g].pc = "sendCount"]
    /\ hist' = [hist EXCEPT !.delta = ContainerUpdateIDs(cnt)]
    /\ UNCHANGED <<disk, diskOps, chgs, changes, updMode, ctxDone, srv, upd, sema, sv, bres, browses, cycles, chk>>

\* updated <- count, received by the server's count := <-update.Updated
TickCount(g) ==
    /\ Running
    /\ tick[g].pc = "sendCount"
    /\ srv.pc = "recv"
    /\ srv.cur = g
    /\ tick' = [tick EXCEPT ![g].pc = "release"]
    /\ srv' = [srv EXCEPT !.pc = "setCUI", !.count = U32(cnt.count)]
    /\ hist' = [hist EXCEPT !.events = Append(@, "count")]
    /\ UNCHANGED <<cnt, disk, diskOps, chgs, changes, updMode, ctxDone, upd, sema, sv, bres, browses, cycles, chk>>

\* the deferred <-sema and wg.Done()
TickRelease(g) ==
    /\ Running
    /\ tick[g].pc = "release"
    /\ sema' = 0
    /\ tick' = [tick EXCEPT ![g].pc = "done"]
    /\ UNCHANGED <<cnt, disk, diskOps, chgs, changes, updMode, ctxDone, srv, upd, sv, bres, browses, cycles, hist, chk>>

\* a send on sema or updNotif after run has closed the channels: panic
TickClosed(g) ==
    /\ Running
    /\ tick[g].pc \in {"acquire", "notify"}
    /\ upd = "done"
    /\ cnt' = [cnt EXCEPT !.halt = "panic"]
    /\ UNCHANGED <<disk, diskOps, chgs, changes, updMode, ctxDone, srv, upd, tick, sema, sv, bres, browses, cycles, hist, chk>>

\* case <-ctx.Done(): the run loop is left for wg0.Wait()
UpdCtxDone ==
    /\ Running
    /\ upd = "loop"
    /\ ctxDone
    /\ upd' = "wait"
    /\ UNCHANGED <<cnt, disk, diskOps, chgs, changes, updMode, ctxDone, srv, tick, sema, sv, bres, browses, cycles, hist, chk>>

\* wg0.Wait() returns and run ends, closing errs, updNotif, upd and sema. The
\* notifier counts its tick goroutines in wg0; the scanner counts them in the
\* server's wait group, so that its wg0 is always zero
UpdReturn ==
    /\ Running
    /\ upd = "wait"
    /\ updMode = "notify" => \A g \in Goroutines : tick[g].pc \in {"idle", "done"}
    /\ upd' = "done"
    /\ UNCHANGED <<cnt, disk, diskOps, chgs, changes, updMode, ctxDone, srv, tick, sema, sv, bres, browses, cycles, hist, chk>>

\* ---------------------------------------------------------------------------
\* The server's main control loop (server.Run) and the UPnP state variables
\* ---------------------------------------------------------------------------
\* upnp.Connect before the loop; on failure Run cancels and returns the error,
\* and the command exits
SrvConnect(ok) ==
    /\ Running
    /\ srv.pc = "connect"
    /\ IF ok
       THEN /\ sv' = [sv EXCEPT !.connected = TRUE]
            /\ srv' = [srv EXCEPT !.pc = "select"]
            /\ UNCHANGED <<cnt, ctxDone>>
       ELSE /\ ctxDone' = TRUE
            /\ srv' = [srv EXCEPT !.pc = "done"]
            /\ cnt' = [cnt EXCEPT !.halt = "exit"]
            /\ sv' = sv
    /\ UNCHANGED <<disk, diskOps, chgs, changes, updMode, upd, tick, sema, bres, browses, cycles, hist, chk>>

\* case sig := <-interrupt
SrvInterrupt ==
    /\ Running
    /\ srv.pc = "select"
    /\ ctxDone' = TRUE
    /\ srv' = [srv EXCEPT !.pc = "done"]
    /\ UNCHANGED <<cnt, disk, diskOps, chgs, changes, updMode, upd, tick, sema, sv, bres, browses, cycles, hist, chk>>

\* case err := <-upnp.Errors()
SrvUPnPError ==
    /\ Running
    /\ srv.pc = "select"
    /\ sv.err
    /\ sv' = [sv EXCEPT !.err = FALSE]
    /\ ctxDone' = TRUE
    /\ srv' = [srv EXCEPT !.pc = "done"]
    /\ UNCHANGED <<cnt, disk, diskOps, chgs, changes, updMode, upd, tick, sema, bres, browses, cycles, hist, chk>>

\* SrvUpdaterError with a loop that logs the error and goes on
SrvUpdaterErrorGoesOn ==
    /\ Running
    /\ srv.pc = "select"
    /\ upd = "errs"
    /\ upd' = "loop"
    /\ hist' = [hist EXCEPT !.errSeen = TRUE]
    /\ UNCHANGED <<cnt, disk, diskOps, chgs, changes, updMode, ctxDone, srv, tick, sema, sv, bres, browses, cycles, chk>>

\* case err := <-cnt.Errors(): the notifier's me.errs <- err is received
SrvUpdaterError ==
    /\ Running
    /\ srv.pc = "select"
    /\ upd = "errs"
    /\ upd' = "loop"
    /\ ctxDone' = TRUE
    /\ srv' = [srv EXCEPT !.pc = "done"]
    /\ hist' = [hist EXCEPT !.errSeen = TRUE]
    /\ UNCHANGED <<cnt, disk, diskOps, chgs, changes, updMode, tick, sema, sv, bres, browses, cycles, chk>>

\* upnp.SetContainerUpdateIDs(cnt.ContainerUpdateIDs())
SrvSetContainerUpdateIDs ==
    /\ Running
    /\ srv.pc = "setCUI"
    /\ sv' = [sv EXCEPT !.ContainerUpdateIDs = ContainerUpdateIDs(cnt)]
    /\ srv' = [srv EXCEPT !.pc = "incr"]
    /\ hist' = [hist EXCEPT !.events = Append(@, "publish")]
    /\ UNCHANGED <<cnt, disk, diskOps, chgs, changes, updMode, ctxDone, upd, tick, sema, bres, browses, cycles, chk>>

\* IncrSystemUpdateID with exceeded = new <= old
IncrSystemUpdateIDLessEqual(old, count) ==
    LET new == U32Add(old, count)
    IN  [value |-> new, exceeded |-> ~U32Less(old, new)]

\* Server.IncrSystemUpdateID: the new value and whether the range was exceeded
IncrSystemUpdateID(old, count) ==
    LET new == U32Add(old, count)
    IN  [value |-> new, exceeded |-> U32Less(new, old)]

\* if upnp.IncrSystemUpdateID(count) { upnp.ServiceResetProcedure(ctx) }
SrvIncrSystemUpdateID ==
    /\ Running
    /\ srv.pc = "incr"
    /\ LET r == IncrSystemUpdateID(sv.SystemUpdateID, srv.count)
       IN  /\ sv' = [sv EXCEPT !.SystemUpdateID = r.value]
           /\ srv' = [srv EXCEPT !.pc = IF r.exceeded THEN "disconnect" ELSE "select"]
    /\ hist' = [hist EXCEPT !.events = Append(@, "incr"), !.old = sv.SystemUpdateID, !.count = srv.count,
                            !.token = sv.ServiceResetToken]
    /\ UNCHANGED <<cnt, disk, diskOps, chgs, changes, updMode, ctxDone, upd, tick, sema, bres, browses, cycles, chk>>

\* ServiceResetProcedure: me.Disconnect(ctx)
SrvDisconnect ==
    /\ Running
    /\ srv.pc = "disconnect"
    /\ sv' = [sv EXCEPT !.connected = FALSE]
    /\ srv' = [srv EXCEPT !.pc = "token"]
    /\ hist' = [hist EXCEPT !.steps = Append(@, "disconnect")]
    /\ UNCHANGED <<cnt, disk, diskOps, chgs, changes, updMode, ctxDone, upd, tick, sema, bres, browses, cycles, chk>>

\* ServiceResetProcedure: me.SetServiceResetToken(), a new random string
SrvSetServiceResetToken ==
    /\ Running
    /\ srv.pc = "token"
    /\ sv' = [sv EXCEPT !.ServiceResetToken = @ + 1]
    /\ srv' = [srv EXCEPT !.pc = "clearCUI"]
    /\ hist' = [hist EXCEPT !.steps = Append(@, "token")]
    /\ UNCHANGED <<cnt, disk, diskOps, chgs, changes, updMode, ctxDone, upd, tick, sema, bres, browses, cycles, chk>>

\* SrvClearContainerUpdateIDs leaving the state variable as it is
SrvClearContainerUpdateIDsSkipped ==
    /\ Running
    /\ srv.pc = "clearCUI"
    /\ srv' = [srv EXCEPT !.pc = "resetCounts"]
    /\ hist' = [hist EXCEPT !.steps = Append(@, "clear")]
    /\ UNCHANGED <<cnt, disk, diskOps, chgs, changes, updMode, ctxDone, upd, tick, sema, sv, bres, browses, cycles, chk>>

\* ServiceResetProcedure: me.SetContainerUpdateIDs("")
SrvClearContainerUpdateIDs ==
    /\ Running
    /\ srv.pc = "clearCUI"
    /\ sv' = [sv EXCEPT !.ContainerUpdateIDs = <<>>]
    /\ srv' = [srv EXCEPT !.pc = "resetCounts"]
    /\ hist' = [hist EXCEPT !.steps = Append(@, "clear")]
    /\ UNCHANGED <<cnt, disk, diskOps, chgs, changes, updMode, ctxDone, upd, tick, sema, bres, browses, cycles, chk>>

RECURSIVE resetUpdCount(_, _, _)
RECURSIVE resetChildren(_, _, _, _)
\* ctr.resetUpdCount
resetUpdCount(g, c, tb) ==
    IF g.halt # "" THEN g ELSE resetChildren([g EXCEPT !.heap[c].updCount = 0, !.cops = Put(@, c, 0)], c, 0, tb)

\* the loop of ctr.resetUpdCount from child i on; childByIndex builds the order
resetChildren(g, c, i, tb) ==
    IF g.halt # "" \/ i >= numChildren(g, c) THEN g
    ELSE LET g1 == Touch(g, c, tb)
         IN  IF g1.halt # "" THEN g1
             ELSE IF isContainer(g1.heap[item(g1, c, i)])
             THEN resetChildren(resetUpdCount(g1, item(g1, c, i), tb), c, i + 1, tb)
             ELSE resetChildren(g1, c, i + 1, tb)

\* Content.ResetCtrUpdCounts
ResetCtrUpdCounts(g, tb) == resetUpdCount(g, 0, tb)

\* ServiceResetProcedure: me.cnt.ResetCtrUpdCounts()
SrvResetCtrUpdCounts ==
    /\ Running
    /\ srv.pc = "resetCounts"
    /\ \E tb \in TieBreaks : cnt' = ResetCtrUpdCounts(cnt, tb)
    /\ srv' = [srv EXCEPT !.pc = "reconnect"]
    /\ hist' = [hist EXCEPT !.steps = Append(@, "zero")]
    /\ UNCHANGED <<disk, diskOps, chgs, changes, updMode, ctxDone, upd, tick, sema, sv, bres, browses, cycles, chk>>

\* ServiceResetProcedure: me.Connect(ctx); a failure is sent on the UPnP
\* server's error channel, where the loop's select finds it
SrvReconnect(ok) ==
    /\ Running
    /\ srv.pc = "reconnect"
    /\ sv' = [sv EXCEPT !.connected = ok, !.err = ~ok]
    /\ srv' = [srv EXCEPT !.pc = "select"]
    /\ hist' = [hist EXCEPT !.steps = Append(@, "connect"), !.resets = @ + 1]
    /\ UNCHANGED <<cnt, disk, diskOps, chgs, changes, updMode, ctxDone, upd, tick, sema, bres, browses, cycles, chk>>

\* ---------------------------------------------------------------------------
\* The specifications
\* ---------------------------------------------------------------------------
\* the steps of the program
Program ==
    \/ InitialUpdate
    \/ \E ok \in BOOLEAN : UpdStart(ok)
    \/ UpdRecvChg
    \/ UpdCtxDone
    \/ UpdReturn
    \/ \E g \in Goroutines : TickAcquire(g)
    \/ \E g \in Goroutines : TickScan(g)
    \/ \E g \in Goroutines : TickNotify(g)
    \/ \E g \in Goroutines : TickProceed(g)
    \/ \E g \in Goroutines : TickBegin(g)
    \/ \E g \in Goroutines : TickFile(g)
    \/ \E g \in Goroutines : TickJoin(g)
    \/ \E t \in cnt.picJobs : PicWorker(t)
    \/ \E g \in Goroutines : TickCleanup(g)
    \/ \E g \in Goroutines : TickCount(g)
    \/ \E g \in Goroutines : TickRelease(g)
    \/ \E g \in Goroutines : TickClosed(g)
    \/ SrvSetContainerUpdateIDs
    \/ SrvIncrSystemUpdateID
    \/ SrvDisconnect
    \/ SrvSetServiceResetToken
    \/ SrvClearContainerUpdateIDs
    \/ SrvResetCtrUpdCounts
    \/ \E ok \in BOOLEAN : SrvReconnect(ok)
    \/ SrvUPnPError
    \/ SrvUpdaterError
    \/ \E ok \in BOOLEAN : SrvConnect(ok)

\* the steps of the environment: the ticker, the music directory, the SSDP
\* network and the operating system's signals
Environment ==
    \/ Tick
    \/ \E p \in Paths : DiskWrite(p)
    \/ \E p \in Paths : DiskRemove(p)
    \/ SrvInterrupt

Next == Program \/ Environment

Spec == Init /\ [][Next]_vars

\* ---------------------------------------------------------------------------
\* A Browse request served while the updater runs: the request handler of the
\* UPnP server calls Content.Browse on a goroutine of its own, and no lock
\* guards the object graph; the reads of Browse interleave with the steps of
\* Content.update
\* ---------------------------------------------------------------------------
\* the StartingIndex values of the interleaved requests
RaceStarts == {0, 1}

\* Content.Browse up to the call of obj.marshal: the object is looked up and
\* indices is computed from numChildren; a request that does not loop over
\* children is served in this one step
BrowseBegin(id, start) ==
    /\ Running
    /\ srv.pc # "init"
    /\ browses < MaxBrowses
    /\ bres.outcome # "running"
    /\ browses' = browses + 1
    /\ IF id \in cnt.objects /\ isContainer(cnt.heap[id])
       THEN /\ bres' = Merge(noBrowse,
                             [outcome |-> "running", id |-> id, mode |-> ModeChildren, start |-> start,
                              wanted |-> 0, inMap |-> TRUE, isCtr |-> TRUE, n |-> numChildren(cnt, id),
                              first |-> indices(start, 0, numChildren(cnt, id)).first,
                              last |-> indices(start, 0, numChildren(cnt, id)).last,
                              i |-> indices(start, 0, numChildren(cnt, id)).first])
            /\ cnt' = cnt
       ELSE \E tb \in TieBreaks :
               /\ bres' = Merge(Browse(cnt, id, ModeChildren, start, 0, tb).res,
                                [id |-> id, mode |-> ModeChildren, start |-> start, wanted |-> 0,
                                 inMap |-> id \in cnt.objects, isCtr |-> FALSE, n |-> 0, order |-> <<>>,
                                 slice |-> <<>>])
               /\ cnt' = Browse(cnt, id, ModeChildren, start, 0, tb).g
    /\ UNCHANGED <<disk, diskOps, chgs, changes, updMode, ctxDone, srv, upd, tick, sema, sv, cycles, hist, chk>>

\* one round of the loop of newContainerMarshalFunc: childByIndex(i), that is
\* refs.item(i) on the container as it is now, and the child's marshal
BrowseChild(g, b, tb) ==
    IF Touch(g, b.id, tb).halt # ""
    THEN [g |-> g, res |-> [b EXCEPT !.outcome = "panic", !.err = "less", !.result = NoResult]]
    ELSE IF b.i < 0 \/ b.i >= Len(Touch(g, b.id, tb).heap[b.id].inOrder)
    THEN [g |-> Touch(g, b.id, tb),
          res |-> [b EXCEPT !.outcome = "panic", !.err = "index out of range", !.result = NoResult]]
    ELSE IF marshalMetadata(Touch(g, b.id, tb), item(Touch(g, b.id, tb), b.id, b.i)).panic
    THEN [g |-> Touch(g, b.id, tb), res |-> [b EXCEPT !.outcome = "panic", !.err = "marshal", !.result = NoResult]]
    ELSE [g |-> Touch(g, b.id, tb),
          res |-> [b EXCEPT !.i = @ + 1,
                            !.result = [didl |-> TRUE,
                                        elems |-> @.elems \o marshalMetadata(Touch(g, b.id, tb),
                                                                             item(Touch(g, b.id, tb), b.id, b.i)).out]]]

\* the loop of the marshal function goes one round
BrowseLoop ==
    /\ bres.outcome = "running"
    /\ bres.i < bres.last
    /\ \E tb \in TieBreaks :
          /\ cnt' = BrowseChild(cnt, bres, tb).g
          /\ bres' = BrowseChild(cnt, bres, tb).res
    /\ UNCHANGED <<disk, diskOps, chgs, changes, updMode, ctxDone, srv, upd, tick, sema, sv, browses, cycles, hist, chk>>

\* Content.Browse, its end: returned and total are computed
BrowseEnd ==
    /\ bres.outcome = "running"
    /\ bres.i >= bres.last
    /\ bres' = [bres EXCEPT !.outcome = "ok", !.result = [didl |-> TRUE, elems |-> @.elems],
                            !.returned = U32(bres.last - bres.first),
                            !.total = U32(numChildren(cnt, bres.id))]
    /\ UNCHANGED <<cnt, disk, diskOps, chgs, changes, updMode, ctxDone, srv, upd, tick, sema, sv, browses, cycles, hist, chk>>

\* the notifier mode with two files in the music directory at start
InitRace ==
    /\ InitGraph
    /\ updMode = "notify"
    /\ \A p \in {pA, pB} : disk[p].exists

\* the update cycles of a program that is not stopped, and the requests
NextRace ==
    \/ InitialUpdate
    \/ \E ok \in BOOLEAN : UpdStart(ok)
    \/ \E ok \in BOOLEAN : SrvConnect(ok)
    \/ UpdRecvChg
    \/ Tick
    \/ \E g \in Goroutines : TickAcquire(g)
    \/ \E g \in Goroutines : TickScan(g)
    \/ \E g \in Goroutines : TickNotify(g)
    \/ \E g \in Goroutines : TickProceed(g)
    \/ \E g \in Goroutines : TickBegin(g)
    \/ \E g \in Goroutines : TickFile(g)
    \/ \E g \in Goroutines : TickJoin(g)
    \/ \E t \in cnt.picJobs : PicWorker(t)
    \/ \E g \in Goroutines : TickCleanup(g)
    \/ \E g \in Goroutines : TickCount(g)
    \/ \E g \in Goroutines : TickRelease(g)
    \/ SrvSetContainerUpdateIDs
    \/ SrvIncrSystemUpdateID
    \/ \E p \in Paths : DiskWrite(p)
    \/ \E p \in Paths : DiskRemove(p)
    \/ \E id \in BrowseIDs, start \in RaceStarts : BrowseBegin(id, start)
    \/ BrowseLoop
    \/ BrowseEnd

SpecRace == InitRace /\ [][NextRace]_vars

\* ---------------------------------------------------------------------------
\* The configuration at start: Hierarchy.validate and the order of the root's
\* children
\* ---------------------------------------------------------------------------
\* the level types of the configuration file; composer is none of LevelType
LevelTypes == {"genre", "albumartist", "artist", "album", "track", "composer"}

\* the sort strings of the configuration file: title, -trackNo, +composer and
\* the empty string
SortStrings == {<<"", "title">>, <<"-", "trackNo">>, <<"+", "composer">>, <<"", "">>}

TypeSeqs == UNION {[1..k -> LevelTypes] : k \in 0..MaxLevels}

SortLists == UNION {[1..k -> SortStrings] : k \in 0..MaxSorts}

\* the hierarchies without sort strings, with and without a name
UnsortedHierarchies ==
    {[Name |-> nm, Levels |-> [i \in 1..Len(q) |-> [Type |-> q[i], Sort |-> <<>>]]] :
        nm \in {<<>>, <<71>>}, q \in TypeSeqs}

\* the level sequences that pass the checks of the last level and of the successors
ChainedSeqs ==
    {q \in TypeSeqs : /\ Len(q) > 0
                      /\ q[Len(q)] = "track"
                      /\ \A i \in 1..Len(q) : q[i] \in DOMAIN allowedHierarchies
                      /\ \A i \in 1..(Len(q) - 1) : q[i + 1] \in allowedHierarchies[q[i]]}

\* the hierarchy of the level sequence q with the sort strings f[i] on level i
SortedHierarchy(q, f) ==
    [Name |-> <<71>>, Levels |-> [i \in 1..Len(q) |-> [Type |-> q[i], Sort |-> f[i]]]]

\* the file lists handed to diff: sorted by path, no path twice, every
\* lastChange already read
FileLists ==
    UNION {{[i \in 1..Cardinality(S) |-> [path |-> SortPaths(S)[i], lc |-> f[SortPaths(S)[i]]]] :
               f \in [S -> 1..MaxLastChange]} : S \in SUBSET Paths}

\* the numbers of configured hierarchies
HierCounts == {1, 2, MaxHiers - 1, MaxHiers}

\* the state after the configuration file has been read
InitCfg ==
    /\ cnt = New
    /\ disk = [p \in Paths |-> [exists |-> FALSE, lc |-> 0]]
    /\ diskOps = 0
    /\ chgs = <<>>
    /\ changes = <<>>
    /\ updMode = "scan"
    /\ ctxDone = FALSE
    /\ srv = [pc |-> "init", cur |-> 0, count |-> <<0, 0>>]
    /\ upd = "off"
    /\ tick = [g \in Goroutines |-> idleTick]
    /\ sema = 0
    /\ sv = [SystemUpdateID |-> <<0, 0>>, ContainerUpdateIDs |-> <<>>, ServiceResetToken |-> 1, connected |-> FALSE,
             err |-> FALSE]
    /\ bres = noBrowse
    /\ browses = 0
    /\ cycles = 0
    /\ hist = noHist
    /\ \/ \E h \in UnsortedHierarchies : chk = [noChk EXCEPT !.op = "validate", !.hier = h]
       \/ \E q \in ChainedSeqs : \E f \in [1..Len(q) -> SortLists] :
              chk = [noChk EXCEPT !.op = "validate", !.hier = SortedHierarchy(q, f)]
       \/ \E n \in HierCounts, pl \in BOOLEAN, fo \in BOOLEAN :
              chk = [noChk EXCEPT !.op = "makeTree", !.n = n, !.pl = pl, !.fo = fo]
       \/ \E c \in FileLists, d \in FileLists :
              chk = [noChk EXCEPT !.op = "diff", !.fiCnt = c, !.fiDir = d]

\* cnt.validate: me.Hiers[i].validate()
CfgValidate ==
    /\ chk.op = "validate"
    /\ ~chk.done
    /\ chk' = [chk EXCEPT !.done = TRUE, !.err = validate(chk.hier)]
    /\ UNCHANGED <<cnt, disk, diskOps, chgs, changes, updMode, ctxDone, srv, upd, tick, sema, sv, bres, browses, cycles, hist>>

\* Content.makeTree and the order root.childByIndex reads the children in
CfgMakeTree(tb) ==
    /\ chk.op = "makeTree"
    /\ ~chk.done
    /\ chk' = [chk EXCEPT !.done = TRUE,
                          !.order = SortIds(DOMAIN makeTreeSortFields(chk.n, chk.pl, chk.fo),
                                            makeTreeSortFields(chk.n, chk.pl, chk.fo), <<"+">>, tb)]
    /\ UNCHANGED <<cnt, disk, diskOps, chgs, changes, updMode, ctxDone, srv, upd, tick, sema, sv, bres, browses, cycles, hist>>

\* diff(fiCnt, fiDir) as fullScan and processChanges call it
ChkDiff ==
    /\ chk.op = "diff"
    /\ ~chk.done
    /\ chk' = [chk EXCEPT !.done = TRUE,
                          !.fiDel = diff(chk.fiCnt, chk.fiDir, disk).del,
                          !.fiAdd = diff(chk.fiCnt, chk.fiDir, disk).add]
    /\ UNCHANGED <<cnt, disk, diskOps, chgs, changes, updMode, ctxDone, srv, upd, tick, sema, sv, bres, browses, cycles, hist>>

NextCfg ==
    \/ CfgValidate
    \/ ChkDiff
    \/ \E tb \in TieBreaks : CfgMakeTree(tb)

SpecCfg == InitCfg /\ [][NextCfg]_vars

\* ---------------------------------------------------------------------------
\* Properties of the update protocol
\* ---------------------------------------------------------------------------
IsPrefix(a, b) == Len(a) <= Len(b) /\ a = SubSeq(b, 1, Len(a))

CycleOrder == <<"notify", "proceed", "apply", "count", "publish", "incr">>

ResetOrder == <<"disconnect", "token", "clear", "zero", "connect">>

ResetPcs == {"disconnect", "token", "clearCUI", "resetCounts", "reconnect"}

\* C1: the events of an update cycle occur in the order notification, proceed,
\* apply, count, publication of ContainerUpdateIDs, increase of
\* SystemUpdateID; a tick goroutine is inside Content.update only after
\* proceed was signalled; and the published ContainerUpdateIDs are the update
\* counters the cycle left behind.
C1_CycleOrder ==
    /\ IsPrefix(hist.events, CycleOrder)
    /\ \A g \in Goroutines : tick[g].pc \in ApplyPcs => (Len(hist.events) >= 2 /\ hist.events[2] = "proceed")
    /\ (Len(hist.events) >= 5 /\ Len(hist.steps) < 3) => sv.ContainerUpdateIDs = hist.delta

C1_Witness ==
    /\ hist.events = CycleOrder
    /\ Len(hist.delta) > 0
    /\ sv.ContainerUpdateIDs = hist.delta

\* C2: at most one tick goroutine is between acquiring and releasing the
\* semaphore, so that at most one is inside Content.update.
C2_OneUpdate == Cardinality({g \in Goroutines : tick[g].pc \in HoldPcs}) <= 1

C2_Witness ==
    \E g, h \in Goroutines : tick[g].pc \in ApplyPcs /\ tick[h].pc = "acquire"

\* C5: after a cycle that reported count c while SystemUpdateID held v, the
\* state variable holds (v + c) mod 2^32, and the service reset procedure has
\* run once in the cycle if v + c >= 2^32 and not at all otherwise.
C5_SystemUpdateID ==
    (Len(hist.events) = 6 /\ srv.pc \notin ResetPcs) =>
        LET lo == hist.old[2] + hist.count[2]
            hi == hist.old[1] + hist.count[1] + (lo \div 65536)
        IN  /\ sv.SystemUpdateID = <<hi % 65536, lo % 65536>>
            /\ hist.resets = IF hi >= 65536 THEN 1 ELSE 0

C5_Witness ==
    /\ Len(hist.events) = 6
    /\ srv.pc = "select"
    /\ hist.old = <<65535, 65533>>
    /\ sv.SystemUpdateID[1] = 0
    /\ hist.resets = 1

\* the containers reachable from the root
RECURSIVE reachableFrom(_, _)
reachableFrom(S, n) ==
    IF n = 0 THEN S
    ELSE reachableFrom(S \cup UNION {cnt.heap[c].byID : c \in {x \in S : isContainer(cnt.heap[x])}}, n - 1)

ReachableContainers == {c \in reachableFrom({0}, 4) : isContainer(cnt.heap[c])}

\* C6: the service reset procedure disconnects, sets a new ServiceResetToken,
\* clears ContainerUpdateIDs, zeroes the update counters and reconnects, in
\* this order; its changes happen while the server is disconnected; and when
\* it has finished, ContainerUpdateIDs is empty and every container reachable
\* from the root has update counter 0.
C6_ServiceReset ==
    /\ IsPrefix(hist.steps, ResetOrder)
    /\ (srv.pc = "disconnect" /\ sv.connected) =>
           (sv.ServiceResetToken = hist.token /\ Len(hist.steps) = 0)
    /\ srv.pc \in ResetPcs \ {"disconnect"} => ~sv.connected
    /\ Len(hist.steps) = 5 =>
           /\ sv.ServiceResetToken # hist.token
           /\ sv.ContainerUpdateIDs = <<>>
           /\ \A c \in ReachableContainers : cnt.heap[c].updCount = 0

C6_Witness ==
    /\ Len(hist.steps) = 5
    /\ sv.connected
    /\ Len(hist.delta) > 0
    /\ Cardinality(ReachableContainers) > 3

\* C7: once the root context is cancelled, the updater's run function
\* eventually returns: as long as it has not returned (and the process has
\* not ended), some step of the program is possible, so that under fairness
\* the updater is never stuck.
C7_UpdaterTerminates == (ctxDone /\ Running /\ upd # "done") => ENABLED Program

\* C8: a file of the add set whose metadata cannot be read does not end the
\* cycle: the process is not stopped by it.
C8_PerFileError ==
    \A g \in Goroutines :
        (tick[g].pc \in ApplyPcs /\ \E i \in 1..Len(tick[g].fiAdd) : tick[g].fiAdd[i].path \in Unreadable)
            => cnt.halt # "fatal"

\* C9 as claimed: after an error of the updater the server loop keeps running
\* and the root context is not cancelled.
C9_LoopKeepsRunning == hist.errSeen => (~ctxDone /\ srv.pc # "done")

\* C9, amended: after the server loop has received an error of the updater,
\* the root context is cancelled and the loop has returned, so that no later
\* update notification is served.
C9_LoopStops == hist.errSeen => (ctxDone /\ srv.pc = "done")

C9_Witness == hist.errSeen /\ upd = "done"

\* C10 as claimed: a tick that finds the semaphore taken starts no update
\* cycle of its own, neither at once nor later.
C10_TickSkipped == \A g \in Goroutines : tick[g].queued => tick[g].pc \notin HoldPcs

\* C10, amended: a tick that finds the semaphore taken is not skipped; its
\* goroutine waits and starts its own cycle only at a moment at which the
\* semaphore is free, taking it.
C10_TickWaits ==
    [][\A g \in Goroutines :
          (tick[g].pc = "acquire" /\ tick'[g].pc # "acquire") => (sema = 0 /\ sema' = 1 /\ tick'[g].pc = "scan")]_vars

C10_Witness == \E g \in Goroutines : tick[g].queued /\ tick[g].pc \in ApplyPcs

C4_BrowseChildren ==
    (bres.outcome # "none" /\ bres.mode = ModeChildren /\ bres.isCtr /\ bres.start <= bres.n) =>
        LET last == IF bres.wanted = 0 THEN bres.n ELSE Min(bres.start + bres.wanted, bres.n)
        IN  /\ bres.outcome = "ok"
            /\ bres.result.elems = bres.slice
            /\ bres.returned = U32(last - bres.start)
            /\ bres.total = U32(bres.n)

\* ---------------------------------------------------------------------------
\* Properties of scanning
\* ---------------------------------------------------------------------------
\* C11: once a scan has been applied and the music directory has not changed
\* since, a further full scan computes empty delete and add sets, and applying
\* it reports count 0.
C11_ScanTwice ==
    (Running /\ srv.pc # "init" /\ diskOps = 0) =>
        \A ord \in TieBreaks, tb \in TieBreaks :
            /\ fullScan(cnt, disk, ord) = [del |-> <<>>, add |-> <<>>]
            /\ update(cnt, fullScan(cnt, disk, ord).del, fullScan(cnt, disk, ord).add, disk, tb).count = 0

\* ---------------------------------------------------------------------------
\* Properties of addTrack and delTrack
\* ---------------------------------------------------------------------------
\* the graph up to the renaming of object IDs: the tree below the root with
\* the names, kinds and numbers of children, the keys of the entity maps with
\* the albums' children, and the number of objects in the object map
RECURSIVE shapeOf(_, _, _)
shapeOf(g, o, depth) ==
    [n |-> g.heap[o].n, kind |-> g.heap[o].kind,
     num |-> IF isContainer(g.heap[o]) THEN numChildren(g, o) ELSE 0,
     children |-> IF depth = 0 \/ ~isContainer(g.heap[o]) THEN {}
                  ELSE {shapeOf(g, c, depth - 1) : c \in g.heap[o].byID}]

graphShape(g) ==
    [tree |-> shapeOf(g, 0, 5),
     tracks |-> DOMAIN g.tracks,
     albums |-> {<<k, shapeOf(g, g.albums[k], 1)>> : k \in DOMAIN g.albums},
     objects |-> Cardinality(g.objects)]

\* C12: in every graph state and for every track t, delete(t) followed by
\* add(t) gives the same graph as add(t) alone, up to the renaming of object
\* IDs: the same tree, the same entity maps, the same number of objects in
\* the object map.
C12_DelAdd ==
    Running =>
        \A p \in Paths \ Unreadable, tb \in TieBreaks :
            graphShape(addTrack(delTrack(cnt, p, tb), p, 1, TRUE, tb)) = graphShape(addTrack(cnt, p, 1, TRUE, tb))

\* ---------------------------------------------------------------------------
\* Properties of the update counters
\* ---------------------------------------------------------------------------
\* C13: the delta map holds, for every container, the number of add-child and
\* remove-child operations applied to it since the map was created, and no
\* entry for a container without such an operation (so the sum of its values
\* is the number of structural changes); ContainerUpdateIDs lists exactly the
\* id,count pairs of the map.
C13_DeltaMap ==
    /\ cnt.updCounts = cnt.ops
    /\ LET s == ContainerUpdateIDs(cnt)
       IN  /\ Len(s) = 2 * Cardinality(DOMAIN cnt.updCounts)
           /\ {<<s[2 * i - 1], s[2 * i]>> : i \in 1..(Len(s) \div 2)}
                  = {<<c, cnt.updCounts[c]>> : c \in DOMAIN cnt.updCounts}

C13_Witness ==
    /\ \E g \in Goroutines : tick[g].pc = "cleanup" /\ Len(tick[g].fiDel) > 0 /\ Len(tick[g].fiAdd) > 0
    /\ \E c \in DOMAIN cnt.ops : cnt.ops[c] >= 2
    /\ Cardinality(DOMAIN cnt.ops) >= 3

\* C14: the update counter of every container is at least the number of
\* add-child and remove-child operations applied to the container since its
\* counter was last reset.
C14_UpdCount ==
    \A c \in DOMAIN cnt.cops :
        (c \in DOMAIN cnt.heap /\ isContainer(cnt.heap[c])) => cnt.heap[c].updCount >= cnt.cops[c]

\* C15: right after ResetCtrUpdCounts every container of the tree below the
\* root has update counter 0 and the delta map is empty, so that
\* ContainerUpdateIDs returns the empty string.
C15_ResetClears ==
    (Running /\ srv.pc = "reconnect") =>
        /\ \A c \in ReachableContainers : cnt.heap[c].updCount = 0
        /\ cnt.updCounts = <<>>
        /\ ContainerUpdateIDs(cnt) = <<>>

\* ---------------------------------------------------------------------------
\* C16: the children of the root, read by index, are the hierarchy containers
\* in the configured sequence, then the playlist hierarchy, then the folder
\* hierarchy, whatever the number of configured hierarchies: the child at
\* index i is the object created i-th below the root
\* ---------------------------------------------------------------------------
C16_RootOrder ==
    (chk.op = "makeTree" /\ chk.done) => chk.order = [i \in 1..Len(chk.order) |-> i]

\* ---------------------------------------------------------------------------
\* C17: the possible hierarchies are exactly seven level sequences, and
\* Hierarchy.validate accepts a hierarchy that has a name (and no sort strings)
\* if and only if its sequence of level types is one of the seven
\* ---------------------------------------------------------------------------
\* the possible hierarchies the documentation lists
PossibleHierarchies ==
    { <<"genre", "albumartist", "album", "track">>,
      <<"genre", "artist", "track">>,
      <<"genre", "album", "track">>,
      <<"genre", "track">>,
      <<"albumartist", "album", "track">>,
      <<"artist", "track">>,
      <<"track">> }

C17_SevenSequences ==
    (/\ chk.op = "validate"
     /\ chk.done
     /\ Len(chk.hier.Name) > 0
     /\ \A i \in 1..Len(chk.hier.Levels) : chk.hier.Levels[i].Sort = <<>>)
        => (chk.err = "" <=> [i \in 1..Len(chk.hier.Levels) |-> chk.hier.Levels[i].Type] \in PossibleHierarchies)

\* ---------------------------------------------------------------------------
\* C18: Hierarchy.validate does not return nil for a hierarchy in which some
\* level lists a sort attribute that is not allowed for the type of the level,
\* wherever the entry stands among the sort strings of the level and among the
\* levels
\* ---------------------------------------------------------------------------
C18_SortFieldError ==
    (/\ chk.op = "validate"
     /\ chk.done
     /\ \E i \in 1..Len(chk.hier.Levels) : \E j \in 1..Len(chk.hier.Levels[i].Sort) :
            /\ ~emptySort(chk.hier.Levels[i].Sort[j])
            /\ splitSort(chk.hier.Levels[i].Sort[j]).sf \notin allowedSortFields(chk.hier.Levels[i].Type))
        => chk.err # ""

\* ---------------------------------------------------------------------------
\* C19: an update that fails after the server's proceed still ends at the
\* server: while the server loop waits on the Updated channel of the cycle
\* whose update is being applied, the updater has not stopped for good, so
\* that the loop gets back to its select
\* ---------------------------------------------------------------------------
C19_CycleEndsAtServer ==
    \A g \in Goroutines :
        (srv.pc = "recv" /\ srv.cur = g /\ tick[g].pc \in ApplyPcs) => cnt.halt = ""

\* ---------------------------------------------------------------------------
\* C20: once run has returned and its deferred function has closed errs,
\* updNotif, upd and the semaphore, no tick goroutine is in flight that has a
\* send on the semaphore or on updNotif ahead of it
\* ---------------------------------------------------------------------------
C20_NoSendOnClosed ==
    upd = "done" => \A g \in Goroutines : tick[g].pc \notin {"acquire", "scan", "notify"}

\* ---------------------------------------------------------------------------
\* C21: every node with a parent is in the child table of its parent, by id
\* and by key, and every node in the child table of a container has that
\* container as its parent
\* ---------------------------------------------------------------------------
C21_ParentChild ==
    Running =>
        \A n \in DOMAIN cnt.heap :
            /\ cnt.heap[n].p # Nil =>
                   /\ n \in cnt.heap[cnt.heap[n].p].byID
                   /\ cnt.heap[n].k \in DOMAIN cnt.heap[cnt.heap[n].p].byKey
                   /\ cnt.heap[cnt.heap[n].p].byKey[cnt.heap[n].k] = n
            /\ \A c \in DOMAIN cnt.heap :
                   (isContainer(cnt.heap[c]) /\ n \in cnt.heap[c].byID) => cnt.heap[n].p = c

\* ---------------------------------------------------------------------------
\* C26: for two file lists sorted by path without duplicates, diff ends and
\* returns as add list the files of the directory that the content lacks or
\* that are newer than in the content, and as delete list the files of the
\* content that the directory lacks or that are newer in the directory; each
\* of these files is listed once, and no other file is listed
\* ---------------------------------------------------------------------------
C26_Diff ==
    (chk.op = "diff" /\ chk.done) =>
        LET c == {chk.fiCnt[i] : i \in 1..Len(chk.fiCnt)}
            d == {chk.fiDir[i] : i \in 1..Len(chk.fiDir)}
            add == {e \in d : \/ \A x \in c : x.path # e.path
                              \/ \E x \in c : x.path = e.path /\ e.lc > x.lc}
            del == {x \in c : \/ \A e \in d : e.path # x.path
                              \/ \E e \in d : e.path = x.path /\ e.lc > x.lc}
        IN  /\ {chk.fiAdd[i] : i \in 1..Len(chk.fiAdd)} = add
            /\ {chk.fiDel[i] : i \in 1..Len(chk.fiDel)} = del
            /\ Len(chk.fiAdd) = Cardinality(add)
            /\ Len(chk.fiDel) = Cardinality(del)

\* diff has compared a content with one file that is newer in the directory,
\* one that is unchanged and one that the directory lacks
C26_Witness ==
    /\ chk.op = "diff"
    /\ chk.done
    /\ \E i \in 1..Len(chk.fiCnt), j \in 1..Len(chk.fiDir) :
           chk.fiCnt[i].path = chk.fiDir[j].path /\ chk.fiCnt[i].lc < chk.fiDir[j].lc
    /\ \E i \in 1..Len(chk.fiCnt), j \in 1..Len(chk.fiDir) :
           chk.fiCnt[i].path = chk.fiDir[j].path /\ chk.fiCnt[i].lc >= chk.fiDir[j].lc
    /\ \E i \in 1..Len(chk.fiCnt) : \A j \in 1..Len(chk.fiDir) : chk.fiCnt[i].path # chk.fiDir[j].path
    /\ Len(chk.fiAdd) = 1
    /\ Len(chk.fiDel) = 2

\* ---------------------------------------------------------------------------
\* C22: in every container no two children share a key: the child table by id
\* and the child table by key have the same size, and every child by id owns
\* an entry of the table by key
\* ---------------------------------------------------------------------------
C22_UniqueKeys ==
    Running =>
        \A c \in DOMAIN cnt.heap :
            isContainer(cnt.heap[c]) =>
                /\ Cardinality(cnt.heap[c].byID) = Cardinality(DOMAIN cnt.heap[c].byKey)
                /\ \A n \in cnt.heap[c].byID, m \in cnt.heap[c].byID :
                       n # m => cnt.heap[n].k # cnt.heap[m].k

\* ---------------------------------------------------------------------------
\* C24: the back-reference list of every album of the album map holds only
\* album references that are attached to a container: an album reference
\* that was removed from the tree is no longer in album.refs, so that
\* album.addChild and album.delChild never meet a reference without parent
\* ---------------------------------------------------------------------------
C24_LiveAlbumRefs ==
    Running =>
        \A k \in DOMAIN cnt.albums :
            \A j \in 1..Len(cnt.heap[cnt.albums[k]].arefs) :
                cnt.heap[cnt.heap[cnt.albums[k]].arefs[j]].p # Nil

\* ---------------------------------------------------------------------------
\* C27: inside one update cycle no file of the add set is processed before
\* every file of the delete set has been processed; after the adds, a file
\* that is in both sets has exactly one track, with the new lastChange
\* ---------------------------------------------------------------------------
C27_DeletesBeforeAdds ==
    Running =>
        \A g \in Goroutines :
            /\ (tick[g].pc \in {"del", "add", "cleanup", "sendCount"}) =>
                   \A i \in 1..Len(hist.applied) :
                       hist.applied[i].add =>
                           \A d \in 1..Len(tick[g].fiDel) :
                               \E j \in 1..(i - 1) :
                                   ~hist.applied[j].add /\ hist.applied[j].path = tick[g].fiDel[d].path
            /\ (tick[g].pc \in {"cleanup", "sendCount"}) =>
                   \A d \in 1..Len(tick[g].fiDel), a \in 1..Len(tick[g].fiAdd) :
                       (tick[g].fiDel[d].path = tick[g].fiAdd[a].path
                            /\ \E i \in 1..Len(hist.applied) :
                                   hist.applied[i].add /\ hist.applied[i].path = tick[g].fiAdd[a].path) =>
                           /\ tick[g].fiAdd[a].path \in DOMAIN cnt.tracks
                           /\ cnt.heap[cnt.tracks[tick[g].fiAdd[a].path]].lastChange > tick[g].fiDel[d].lc
                           /\ Cardinality({t \in cnt.objects : cnt.heap[t].kind = "track"
                                               /\ cnt.heap[t].path = tick[g].fiAdd[a].path}) = 1


\* a cycle has replaced a rewritten file: its path was in the delete set and
\* in the add set, and both were processed
C27_Witness ==
    /\ Running
    /\ \E g \in Goroutines :
           /\ tick[g].pc = "sendCount"
           /\ \E d \in 1..Len(tick[g].fiDel), a \in 1..Len(tick[g].fiAdd) :
                  /\ tick[g].fiDel[d].path = tick[g].fiAdd[a].path
                  /\ \E i \in 1..Len(hist.applied), j \in 1..Len(hist.applied) :
                         /\ i < j
                         /\ ~hist.applied[i].add
                         /\ hist.applied[j].add
                         /\ hist.applied[i].path = tick[g].fiDel[d].path
                         /\ hist.applied[j].path = tick[g].fiDel[d].path
                  /\ tick[g].fiDel[d].lc > 0

\* ---------------------------------------------------------------------------
\* C29: whenever no update cycle is being applied, the picture store holds
\* exactly the pictures that the tracks of the track map cite: every valid
\* picID of a track is a key of the store, and every key of the store is the
\* picID of a track
\* ---------------------------------------------------------------------------
C29_PicturesCited ==
    (Running /\ srv.pc # "init" /\ \A g \in Goroutines : tick[g].pc \notin {"del", "add", "cleanup"}) =>
        cnt.pics = {cnt.heap[cnt.tracks[p]].picID.id :
                        p \in {q \in DOMAIN cnt.tracks : cnt.heap[cnt.tracks[q]].picID.valid}}

\* a cycle has deleted the last track that cited a picture, and the store
\* has been emptied
C29_Witness ==
    /\ Running
    /\ \E g \in Goroutines : tick[g].pc = "sendCount" /\ Len(tick[g].fiDel) > 0
    /\ \E i \in 1..Len(hist.applied) : ~hist.applied[i].add /\ PicOf(hist.applied[i].path) # 0
    /\ cnt.pics = {}

\* ---------------------------------------------------------------------------
\* C30: when cleanup runs and when the cycle reports its count, every cover
\* worker of the cycle has finished, every track of the track map whose file
\* carries a picture cites the id that is the hash of the picture, and the
\* store holds that id (as a key of a map, once), whatever the order in which
\* the workers ran
\* ---------------------------------------------------------------------------
C30_PicturesShared ==
    Running =>
        \A g \in Goroutines :
            tick[g].pc \in {"cleanup", "sendCount"} =>
                /\ cnt.picJobs = {}
                /\ \A p \in DOMAIN cnt.tracks :
                       PicOf(p) # 0 =>
                           /\ cnt.heap[cnt.tracks[p]].picID = [id |-> PicOf(p), valid |-> TRUE]
                           /\ PicOf(p) \in cnt.pics

\* a cycle has added two tracks whose pictures have the same hash and is
\* about to report its count: both tracks cite the one entry of the store
C30_Witness ==
    /\ Running
    /\ \E g \in Goroutines : tick[g].pc = "sendCount"
    /\ \E i \in 1..Len(hist.applied), j \in 1..Len(hist.applied) :
           /\ i # j
           /\ hist.applied[i].add
           /\ hist.applied[j].add
           /\ hist.applied[i].path # hist.applied[j].path
           /\ PicOf(hist.applied[i].path) # 0
           /\ PicOf(hist.applied[i].path) = PicOf(hist.applied[j].path)
           /\ cnt.heap[cnt.tracks[hist.applied[i].path]].picID.valid
           /\ cnt.heap[cnt.tracks[hist.applied[j].path]].picID.valid
    /\ Cardinality(cnt.pics) = 1

\* ---------------------------------------------------------------------------
\* C23: after every update cycle every node that is reached from the root
\* through the child tables is in the object map, so that Browse finds it
\* ---------------------------------------------------------------------------
C23_Resolvable == (Running /\ upd # "off") => reachableFrom({0}, 5) \subseteq cnt.objects

\* ---------------------------------------------------------------------------
\* C25: every track reference that a track of the track map holds in its
\* refs is attached to a container; no add leaves a track reference that is
\* registered in the object map and in track.refs without parent, also not
\* the add that ends the update with a fatal error
\* ---------------------------------------------------------------------------
C25_RefsAttached ==
    \A p \in DOMAIN cnt.tracks :
        \A r \in cnt.heap[cnt.tracks[p]].trefs :
            r \in cnt.objects => cnt.heap[r].p # Nil

C40_NumberReturned ==
    (bres.outcome = "ok" /\ bres.mode = ModeChildren) =>
        /\ bres.total = U32(bres.n)
        /\ ~U32Less(bres.total, bres.returned)
        /\ bres.returned = U32(Len(bres.result.elems))

\* ---------------------------------------------------------------------------
\* C36: a Browse call, in either mode and whatever its outcome, leaves the
\* whole graph state as it is, the child tables and the ordered child
\* sequences of the containers included
\* ---------------------------------------------------------------------------
C36_BrowseReadsOnly == [][browses' # browses => cnt' = cnt]_vars


\* ---------------------------------------------------------------------------
\* C37: a Browse of the direct children of a container that runs while the
\* updater applies changes never reads the ordered child sequence of the
\* container at an index that is not below the sequence's current length
\* ---------------------------------------------------------------------------
C37_IndexInRange == ~(bres.outcome = "panic" /\ bres.err = "index out of range")


\* ---------------------------------------------------------------------------
\* C32: an album with at least one track has as lastChange the maximum of the
\* lastChange values of its child tracks; whenever the lastChange of an album
\* changes, every albumRef of the album has a parent container and the order
\* of that container is invalidated; album.addChild leaves the graph as it
\* is, without tracing an update, for an object that is not a track
\* ---------------------------------------------------------------------------
\* the call that led from g to g2 has returned and, if it changed the
\* lastChange of album a, has invalidated the order of the parent of every
\* albumRef of a
OrderInvalidated(g, g2, a) ==
    g2.heap[a].lastChange # g.heap[a].lastChange =>
        /\ g2.halt = ""
        /\ \A j \in 1..Len(g2.heap[a].arefs) :
              /\ g2.heap[g2.heap[a].arefs[j]].p # Nil
              /\ g2.heap[g2.heap[g2.heap[a].arefs[j]].p].inOrder = <<>>

C32_AlbumLastChange ==
    Running =>
    \A a \in {cnt.albums[k] : k \in DOMAIN cnt.albums} :
        /\ cnt.heap[a].byID # {} => cnt.heap[a].lastChange = maxLastChange(cnt, a)
        /\ \A o \in cnt.objects : cnt.heap[o].kind # "track" => albumAddChild(cnt, a, o) = cnt
        /\ \A t \in cnt.heap[a].byID, tb \in TieBreaks :
              OrderInvalidated(cnt, albumDelChild(cnt, a, t, tb), a)
        /\ \A p \in DOMAIN disk \ DOMAIN cnt.tracks, lc \in 1..MaxLastChange :
              cnt.heap[a].k = albumKey(TagsOf(p)) => OrderInvalidated(cnt, newTrack(cnt, p, lc, TRUE), a)


\* ---------------------------------------------------------------------------
\* C34: for every container and every child of it, the sort-field vector of
\* the child has at least as many entries as the comparison vector of the
\* container, so that refs.item never reads a sort field past the end of the
\* vector; this also for tracks with an empty title
\* ---------------------------------------------------------------------------
C34_SortFieldsComplete ==
    \A c \in cnt.objects :
        isContainer(cnt.heap[c]) =>
            \A x \in cnt.heap[c].byID :
                /\ Len(cnt.heap[x].sf) >= Len(cnt.heap[c].comps)
                /\ \A y \in cnt.heap[c].byID \ {x} : ~LessPanics(cnt.heap, cnt.heap[c].comps, x, y)


\* ---------------------------------------------------------------------------
\* C33: after every update cycle, in a hierarchy whose album level is sorted
\* by lastChange, the sort field of every albumRef is the lastChange its album
\* has now, padded with zeros to 20 digits
\* ---------------------------------------------------------------------------
C33_AlbumRefSortField ==
    Running =>
        \A r \in cnt.objects :
            cnt.heap[r].kind = "albumRef" =>
                cnt.heap[r].sf = <<Pad(cnt.heap[cnt.heap[r].album].lastChange, 20)>>


\* ---------------------------------------------------------------------------
\* C31: after any sequence of additions and removals of children, the ordered
\* sequence refs.item reads from holds every current child of the container
\* exactly once, in an order in which the sort-field vectors do not decrease
\* under the lexicographic product of the container's comparisons; and the
\* enumeration childByIndex(0) .. childByIndex(n - 1) of a Browse request
\* delivers the n children
\* ---------------------------------------------------------------------------
ChildrenInOrder(g, c) ==
    Len(g.heap[c].inOrder) # 0 =>
        /\ Len(g.heap[c].inOrder) = Cardinality(g.heap[c].byID)
        /\ {g.heap[c].inOrder[i] : i \in 1..Len(g.heap[c].inOrder)} = g.heap[c].byID
        /\ \A i, j \in 1..Len(g.heap[c].inOrder) :
              i < j => ~Less(g.heap, g.heap[c].comps, g.heap[c].inOrder[j], g.heap[c].inOrder[i])

C31_ChildrenInOrder ==
    /\ \A c \in cnt.objects : isContainer(cnt.heap[c]) => ChildrenInOrder(cnt, c)
    /\ (bres.isCtr /\ bres.mode = ModeChildren /\ bres.start = 0 /\ bres.wanted = 0) =>
           Len(bres.order) = bres.n


\* ---------------------------------------------------------------------------
\* C35: every event appended to the buffer of the notifier is handed to
\* exactly one run of processChanges: the events handed to the runs so far,
\* followed by the events in the buffer, are the events appended so far, each
\* once and in the order of their arrival
\* ---------------------------------------------------------------------------
C35_EventsHandedOnce == hist.handed \o changes = hist.appended

\* an event has been handed to a run, and a later run has found the buffer empty
C35_Witness ==
    /\ Len(hist.handed) > 0
    /\ changes = <<>>
    /\ \E g, h \in Goroutines : g # h /\ tick[g].pc = "release" /\ Len(tick[g].fiDel) + Len(tick[g].fiAdd) = 0
                                  /\ tick[h].pc \notin {"idle", "acquire", "scan"}


TrackObjects(g) ==
    {o \in g.objects : g.heap[o].kind = "track"}
        \cup UNION {g.heap[g.albums[k]].byID : k \in DOMAIN g.albums}
        \cup {g.heap[r].track : r \in {o \in g.objects : g.heap[o].kind = "trackRef"}}

====
